---- MODULE Spec2Model ----
(***************************************************************************)
(* Hyperliquid whale tracker: the WebSocket subscription reconciler        *)
(* (monitoring.monitor_worker), the ingestion callback                     *)
(* (monitoring.on_user_event), the threshold store (database.py) and the   *)
(* notification queue drained by main.notification_sender.                 *)
(*                                                                         *)
(* Time is kept relative: the code only ever uses the two differences      *)
(*   time.time() - connection_status["last_heartbeat"]   (heartbeat_age)   *)
(*   _get_current_minute() - rate_limiter.current_minute (minute_age)      *)
(* so the clock is modelled by these two ages, advanced in steps and       *)
(* saturated where the code no longer distinguishes values.                *)
(*                                                                         *)
(* One loop iteration of monitor_worker and one call of on_user_event are  *)
(* atomic actions.  Each leaves a record of what it did in `obs`; the      *)
(* record is dropped by the next step (Observed) before anything else is   *)
(* scheduled, so `obs` describes exactly the iteration or the call that    *)
(* has just finished.                                                      *)
(***************************************************************************)
EXTENDS Integers, Sequences, FiniteSets, TLC

VARIABLES
    pc,                  \* position of the monitor thread
    exit_cause,          \* why monitor_worker returned
    shutdown_event,      \* threading.Event
    tracked_wallets,     \* table tracked_wallets: set of <<chat_id, wallet_address>>
    user_settings,       \* table user_settings: chat_id -> row
    subscribed_wallets,  \* module global subscribed_wallets
    connection_status,   \* module global connection_status
    rate_limiter,        \* module global rate_limiter
    ws,                  \* the WebsocketManager held by monitor_worker / ws_manager
    retry_count,         \* local retry_count of monitor_worker
    notification_queue,  \* module global notification_queue (not initialised: None)
    token_cache,         \* hyperliquid_api._token_name_cache / _cache_timestamp
    sender,              \* the notification_sender task
    health_access,       \* who wrote connection_status, and the accesses in progress
    threads,             \* module global monitor_thread and the threads start_monitoring started
    poller,              \* an OrderPollingMonitor: last_fills and what it reported
    obs                  \* what the step that has just finished did

vars == <<pc, exit_cause, shutdown_event, tracked_wallets, user_settings,
          subscribed_wallets, connection_status, rate_limiter, ws,
          retry_count, notification_queue, token_cache, sender,
          health_access, threads, poller, obs>>

\* ------------------------------------------------------------------------
\* Program constants
\* ------------------------------------------------------------------------
HEARTBEAT_WARN_SEC == 120
HEARTBEAT_RECONNECT_SEC == 180
RECONNECT_BASE_DELAY_SEC == 1
RECONNECT_MAX_DELAY_SEC == 30
MAX_RECONNECT_ATTEMPTS == 10
max_retries == 5
\* _recreate_ws: max_wait = 15 seconds, polled with time.sleep(0.5).
max_wait == 15
POLLS_PER_SEC == 2
DEFAULT_TRADE_THRESHOLD_USD == 100000
MINUTE_SEC == 60
PREFIX_MIN_LEN == 10

\* ------------------------------------------------------------------------
\* Bounds of the model
\* ------------------------------------------------------------------------
\* max_requests_per_minute of the module's rate_limiter (50 in the source),
\* scaled down so that two wallets can exhaust it.
RateBudget == 2
\* The most notifications the model lets wait in the queue.
MaxQueue == 2

Null == 0 - 1

Min(a, b) == IF a <= b THEN a ELSE b

\* All enumerations of a finite set (the iteration order of a Python set or
\* of an SQL result is unspecified).
Orderings(S) ==
    {s \in [1..Cardinality(S) -> S] : \A i, j \in 1..Cardinality(S) : s[i] = s[j] => i = j}

\* ------------------------------------------------------------------------
\* Addresses: strings as sequences of character codes.  Codes 0..9 are
\* digits, 10..35 letters (a letter's upper case is its code + 100), 40 is
\* "_" and 41 is "%".
\* ------------------------------------------------------------------------
Lower(c) == IF c >= 100 THEN c - 100 ELSE c
Upper(c) == IF c >= 10 /\ c <= 35 THEN c + 100 ELSE c
Wildcard == [one |-> 40, run |-> 41]
LowerStr(s) == [i \in 1..Len(s) |-> Lower(s[i])]
UpperStr(s) == [i \in 1..Len(s) |-> Upper(s[i])]
StartsWith(s, p) == Len(p) <= Len(s) /\ SubSeq(s, 1, Len(p)) = p

\* SQL's "s LIKE pattern": "_" stands for any one character, "%" for any
\* run of characters, letters compare without regard to case.
RECURSIVE Like(_, _)
Like(s, pattern) ==
    IF pattern = << >> THEN s = << >>
    ELSE IF Head(pattern) = Wildcard.run
         THEN Like(s, Tail(pattern)) \/ (s # << >> /\ Like(Tail(s), pattern))
    ELSE /\ s # << >>
         /\ Head(pattern) = Wildcard.one \/ Lower(Head(pattern)) = Lower(Head(s))
         /\ Like(Tail(s), Tail(pattern))

Addr1 == <<0, 1, 2, 3, 4, 5, 6, 7, 10, 11, 12, 13>>
Addr2 == <<0, 1, 2, 3, 4, 5, 6, 7, 10, 11, 14, 15>>
Addr1Short == SubSeq(Addr1, 1, PREFIX_MIN_LEN)
Addr1Tiny == SubSeq(Addr1, 1, 4)
AddrPattern == <<0, 1, 2, 3, 4, 5, 6, 7, Wildcard.one, 11>>
NoAddress == << >>

ChatIds == {101, 102}
Wallets == {Addr1, Addr2}

\* ------------------------------------------------------------------------
\* database.py
\* ------------------------------------------------------------------------
AddWalletToDb(tracked, chat_id, address) == tracked \cup {<<chat_id, LowerStr(address)>>}

RemoveWalletFromDb(tracked, chat_id, address) == tracked \ {<<chat_id, LowerStr(address)>>}

GetAllUniqueWallets(tracked) == {row[2] : row \in tracked}

\* A lookup that falls back to the prefix match whatever the length of the
\* address (sensitivity variant of GetUsersTrackingWallet).
GetUsersByAnyPrefix(tracked, address) ==
    LET exact == {row \in tracked : row[2] = LowerStr(address)}
        like == {row \in tracked : Like(row[2], LowerStr(address) \o <<Wildcard.run>>)}
    IN  IF exact = {} THEN like ELSE exact

\* The rows whose chat_id get_users_tracking_wallet returns (one list entry
\* per row): the exact matches, or, when there is none and the address has
\* at least 10 characters, the rows whose address starts with it.
GetUsersTrackingWallet(tracked, address) ==
    LET exact == {row \in tracked : row[2] = LowerStr(address)}
        like == {row \in tracked : Like(row[2], LowerStr(address) \o <<Wildcard.run>>)}
    IN  IF exact = {} /\ Len(address) >= PREFIX_MIN_LEN THEN like ELSE exact

SetUserThreshold(settings, chat_id, threshold) ==
    [c \in DOMAIN settings \cup {chat_id} |->
        IF c = chat_id THEN [threshold |-> threshold, order_threshold |-> Null]
        ELSE settings[c]]

SetUserOrderThreshold(settings, chat_id, threshold) ==
    [c \in DOMAIN settings \cup {chat_id} |->
        IF c = chat_id
        THEN [threshold |-> IF chat_id \in DOMAIN settings
                            THEN settings[chat_id].threshold
                            ELSE DEFAULT_TRADE_THRESHOLD_USD,
              order_threshold |-> threshold]
        ELSE settings[c]]

\* An order threshold without the fallback to the trade threshold
\* (sensitivity variant of GetUserOrderThreshold).
GetUserOrderThresholdNoFallback(settings, chat_id) ==
    IF chat_id \in DOMAIN settings /\ settings[chat_id].order_threshold # Null
    THEN settings[chat_id].order_threshold
    ELSE DEFAULT_TRADE_THRESHOLD_USD

GetUserThreshold(settings, chat_id) ==
    IF chat_id \in DOMAIN settings THEN settings[chat_id].threshold
    ELSE DEFAULT_TRADE_THRESHOLD_USD

GetUserOrderThreshold(settings, chat_id) ==
    IF chat_id \notin DOMAIN settings THEN DEFAULT_TRADE_THRESHOLD_USD
    ELSE LET row == settings[chat_id] IN
         IF row.order_threshold # Null /\ row.order_threshold > 0 THEN row.order_threshold
         ELSE IF row.threshold # 0 /\ row.threshold > 0 THEN row.threshold
         ELSE DEFAULT_TRADE_THRESHOLD_USD

\* ------------------------------------------------------------------------
\* SimpleRateLimiter
\* ------------------------------------------------------------------------
\* A limiter whose counter is never reset (sensitivity variant of
\* ResetIfNewMinute).
ResetNever(rl) == rl

\* _reset_if_new_minute(): in a new minute the counter starts again at 0.
ResetIfNewMinute(rl) ==
    IF rl.minute_age > 0 THEN [current_requests |-> 0, minute_age |-> 0] ELSE rl

CanMakeRequest(rl) == ResetIfNewMinute(rl).current_requests < RateBudget

AddRequest(rl) == [ResetIfNewMinute(rl) EXCEPT !.current_requests = @ + 1]

\* ------------------------------------------------------------------------
\* Stream session (WebsocketManager), a black box: state none | open | closed,
\* health up (ws_ready and is_alive()) | down, and the wallets
\* whose subscription it accepted.
\* ------------------------------------------------------------------------
NoWs == [state |-> "none", health |-> "down", topics |-> {}]
Health == {"up", "down"}

WsConnected(w) == w.state # "none" /\ w.health = "up"

\* The ws.subscribe calls one _safe_subscribe makes: userEvents and
\* userFills; when one of them raises, at least the one that raised.
SubscribeCalls(accepted) == IF accepted THEN 2 ELSE 1

\* A subscription whose exception takes the session down (sensitivity
\* variant of SafeSubscribe).
SafeSubscribeTearsDown(w, wallet, accepted) ==
    IF accepted THEN [w EXCEPT !.topics = @ \cup {wallet}]
    ELSE [w EXCEPT !.state = "closed", !.health = "down"]

\* ws.subscribe raised (accepted = FALSE) or not; the exception is swallowed.
SafeSubscribe(w, wallet, accepted) ==
    IF accepted THEN [w EXCEPT !.topics = @ \cup {wallet}] ELSE w

\* ws.close() of the old manager; close_ok = FALSE: no close method, or it raised.
CloseWs(w, close_ok) ==
    IF w.state = "open" /\ close_ok THEN [w EXCEPT !.state = "closed", !.health = "down"] ELSE w

\* _recreate_ws(ws).  result: "failed" (the constructor or start() raised:
\* None is returned), "connected" (ready and alive seen within max_wait) or
\* "timeout" (the manager is returned although it never became healthy).
RecreateWs(w, conn, close_ok, result, health) ==
    LET old == CloseWs(w, close_ok) IN
    CASE result = "failed" ->
            [ret |-> "none", old |-> old, new |-> NoWs, conn |-> conn]
      [] result = "connected" ->
            [ret |-> "new", old |-> old,
             new |-> [state |-> "open", health |-> "up", topics |-> {}],
             conn |-> [connected |-> TRUE, heartbeat_age |-> 0]]
      [] OTHER ->
            [ret |-> "new", old |-> old,
             new |-> [state |-> "open", health |-> health, topics |-> {}],
             conn |-> [conn EXCEPT !.connected = FALSE]]

\* The wait for the connection inside _recreate_ws, in steps of the 0.5 s
\* sleep: while not connection_established and wait_time < max_wait: poll
\* ws_ready and is_alive(); break when both hold; sleep 0.5; wait_time += 0.5.
\* ready_from: the step from which the new manager is ready and alive.
RECURSIVE WaitForConnection(_, _, _)
WaitForConnection(wait_time, polls, ready_from) ==
    IF wait_time < max_wait * POLLS_PER_SEC
    THEN IF wait_time >= ready_from
         THEN [established |-> TRUE, wait_time |-> wait_time, polls |-> polls + 1]
         ELSE WaitForConnection(wait_time + 1, polls + 1, ready_from)
    ELSE [established |-> FALSE, wait_time |-> wait_time, polls |-> polls]

\* The manager becomes healthy at once, after one sleep, at the last poll,
\* just when the wait ends, or later.
ReadyTimes ==
    {0, 1, max_wait * POLLS_PER_SEC - 1, max_wait * POLLS_PER_SEC,
     max_wait * POLLS_PER_SEC + 1}

\* A _recreate_ws that returns None when the wait ran out (sensitivity
\* variant of RecreateResult).
RecreateResultStrict(raised, ready_from) ==
    IF raised \/ ~WaitForConnection(0, 0, ready_from).established
    THEN "failed" ELSE "connected"

\* What _recreate_ws comes to: the constructor or start() raised, the wait
\* saw the manager healthy, or the wait ran out.
RecreateResult(raised, ready_from) ==
    IF raised THEN "failed"
    ELSE IF WaitForConnection(0, 0, ready_from).established THEN "connected"
    ELSE "timeout"

RecreateResults ==
    {RecreateResult(raised, ready_from) : raised \in BOOLEAN, ready_from \in ReadyTimes}

\* ------------------------------------------------------------------------
\* monitor_worker: the data one loop iteration works on
\* ------------------------------------------------------------------------
NoObs == [kind |-> "none"]

\* connection_status as it is written and read, one dictionary access at a
\* time: hb is the number of the write that last_heartbeat holds (0: the
\* module's initial None), writes counts them; callback is where the
\* on_user_event in progress is, reader where the worker's status check
\* is, hb_read the last_heartbeat it read and seen the (last_heartbeat,
\* connected) pairs the dictionary has held since.
NoAccess ==
    [hb |-> 0, writes |-> 0, callback |-> "idle", reader |-> "idle",
     hb_read |-> 0, seen |-> {}]

\* monitor_thread = None, no thread started by start_monitoring, no call of
\* start_monitoring in progress.
NoThreads == [monitor_thread |-> 0, alive |-> {}, started |-> 0, callers |-> {}]

\* OrderPollingMonitor.__init__: self.last_fills = {}; reported is every
\* fill detect_new_fills has returned so far.
NewPoller == [running |-> FALSE, last_fills |-> {}, reported |-> {}]

\* The record of the previous step has been dropped: the next one may run.
Quiet == obs = NoObs

\* The worker's view at the head of an iteration.
Start ==
    [subs |-> subscribed_wallets, ws |-> ws, conn |-> connection_status,
     rl |-> rate_limiter, retry |-> retry_count,
     sub_calls |-> << >>, swap_at |-> Null, unsub_calls |-> {}, sent |-> 0]

\* A loop that stops after its first subscription (sensitivity variant of
\* SubscribeLoop).
SubscribeLoopOnce(st, order, i, refused) ==
    IF i > Len(order) \/ ~CanMakeRequest(st.rl) THEN st
    ELSE [st EXCEPT !.ws = SafeSubscribe(st.ws, order[i], order[i] \notin refused),
                    !.subs = @ \cup {order[i]},
                    !.rl = AddRequest(st.rl),
                    !.sub_calls = Append(@, order[i]),
                    !.sent = @ + SubscribeCalls(order[i] \notin refused)]

\* A loop that subscribes every wallet a second time right away
\* (sensitivity variant of SubscribeLoop).
RECURSIVE SubscribeLoopTwice(_, _, _, _)
SubscribeLoopTwice(st, order, i, refused) ==
    IF i > Len(order) THEN st
    ELSE LET wallet == order[i] IN
         IF CanMakeRequest(st.rl)
         THEN SubscribeLoopTwice(
                [st EXCEPT !.ws = SafeSubscribe(st.ws, wallet, wallet \notin refused),
                           !.subs = @ \cup {wallet},
                           !.rl = AddRequest(st.rl),
                           !.sub_calls = Append(Append(@, wallet), wallet),
                           !.sent = @ + 2 * SubscribeCalls(wallet \notin refused)],
                order, i + 1, refused)
         ELSE [st EXCEPT !.rl = ResetIfNewMinute(st.rl)]

\* for wallet in <wallets>: if rate_limiter.can_make_request():
\*     _safe_subscribe(ws, wallet); subscribed_wallets.add(wallet); add_request()
\* else: break.  `order` is the iteration order, `refused` the wallets whose
\* ws.subscribe raises.  can_make_request resets the counter in a new minute
\* also when it then answers False.
RECURSIVE SubscribeLoop(_, _, _, _)
SubscribeLoop(st, order, i, refused) ==
    IF i > Len(order) THEN st
    ELSE LET wallet == order[i] IN
         IF wallet \in st.subs THEN SubscribeLoop(st, order, i + 1, refused)
         ELSE IF CanMakeRequest(st.rl)
         THEN SubscribeLoop(
                [st EXCEPT !.ws = SafeSubscribe(st.ws, wallet, wallet \notin refused),
                           !.subs = @ \cup {wallet},
                           !.rl = AddRequest(st.rl),
                           !.sub_calls = Append(@, wallet),
                           !.sent = @ + SubscribeCalls(wallet \notin refused)],
                order, i + 1, refused)
         ELSE [st EXCEPT !.rl = ResetIfNewMinute(st.rl)]

\* Only the wallets whose unsubscribe went through are discarded
\* (sensitivity variant of UnsubscribeRemoved).
UnsubscribeAccepted(st, universe, accepted) ==
    LET removed == st.subs \ universe IN
    [st EXCEPT !.subs = @ \ (removed \cap accepted),
               !.ws.topics = @ \ (removed \cap accepted),
               !.unsub_calls = removed]

\* A removal that is skipped while the limiter refuses (sensitivity variant
\* of UnsubscribeRemoved).
UnsubscribeRemovedWithinBudget(st, universe, accepted) ==
    LET removed == IF CanMakeRequest(st.rl) THEN st.subs \ universe ELSE {} IN
    [st EXCEPT !.subs = @ \ removed,
               !.ws.topics = @ \ (removed \cap accepted),
               !.unsub_calls = removed]

\* removed_wallets = subscribed_wallets - wallets_in_db; each is unsubscribed
\* through _safe_unsubscribe (not rate limited, errors swallowed) and
\* discarded.  `accepted`: the wallets whose ws.unsubscribe exists and does
\* not raise.
UnsubscribeRemoved(st, universe, accepted) ==
    LET removed == st.subs \ universe IN
    [st EXCEPT !.subs = @ \ removed,
               !.ws.topics = @ \ (removed \cap accepted),
               !.unsub_calls = removed]

\* Lines 479-502: subscribe the new wallets, unsubscribe the removed ones.
Reconcile(st, universe, order, refused, accepted) ==
    UnsubscribeRemoved(SubscribeLoop(st, order, 1, refused), universe, accepted)

\* A delay that doubles without a cap on the exponent or on the result
\* (sensitivity variant of ReconnectDelay).
ReconnectDelayUncapped(k) == RECONNECT_BASE_DELAY_SEC * (2 ^ k)

\* delay = min(RECONNECT_BASE_DELAY_SEC * 2 ** min(retry_count, 5), RECONNECT_MAX_DELAY_SEC)
ReconnectDelay(k) ==
    Min(RECONNECT_BASE_DELAY_SEC * (2 ^ Min(k, 5)), RECONNECT_MAX_DELAY_SEC)

\* jitter = random.uniform(0, 0.3 * delay), in tenths of a second.
JitterTenths(delay) == 0..(3 * delay)

\* time.sleep(delay + jitter), in tenths of a second.
SleepTenths(delay, jitter) == 10 * delay + jitter

\* After a new manager was returned: ws = ws_new, subscribed_wallets.clear(),
\* re-subscribe to wallets_in_db under the rate limiter, retry_count = 0.
\* swap_at: the number of subscriptions that went to the old manager.
SwapAndResubscribe(st, rc, order, refused) ==
    [SubscribeLoop([st EXCEPT !.ws = rc.new, !.conn = rc.conn, !.subs = {},
                              !.swap_at = Len(st.sub_calls)],
                   order, 1, refused)
        EXCEPT !.retry = 0]

Outcome(st, path, exit, recreate, leak, delay) ==
    [st |-> st, path |-> path, exit |-> exit, recreate |-> recreate,
     leak |-> leak, delay |-> delay]

\* Lines 509-511 with idle_sec <= HEARTBEAT_RECONNECT_SEC: nothing is done.
SteadyOutcome(st) ==
    Outcome(st,
            IF st.conn.heartbeat_age > HEARTBEAT_WARN_SEC THEN "warn" ELSE "steady",
            "no", "not_called", FALSE, 0)

\* Lines 513-542: the session is healthy but silent for too long.
SilenceOutcome(st, rc, order, refused) ==
    IF rc.ret = "new"
    THEN Outcome(SwapAndResubscribe(st, rc, order, refused),
                 "silence_swap", "no", "new", rc.old.state = "open", 0)
    ELSE LET r == st.retry + 1 IN
         IF r >= MAX_RECONNECT_ATTEMPTS
         THEN Outcome([st EXCEPT !.retry = 0, !.ws = rc.old],
                      "silence_cooldown", "no", "none", FALSE, RECONNECT_MAX_DELAY_SEC)
         ELSE Outcome([st EXCEPT !.retry = r, !.ws = rc.old],
                      "silence_fail", "no", "none", FALSE, ReconnectDelay(r))

\* Lines 545-550: the session is down and the retry counter reaches
\* MAX_RECONNECT_ATTEMPTS: reset, long pause, continue.
CooldownOutcome(st) ==
    Outcome([st EXCEPT !.retry = 0], "down_cooldown", "no", "not_called", FALSE,
            RECONNECT_MAX_DELAY_SEC)

\* A down branch that only counts and waits (sensitivity variant of
\* DownOutcome).
DownOutcomeWaits(st, rc, order, refused) ==
    [st |-> [st EXCEPT !.retry = @ + 1], path |-> "down_fail", exit |-> "no",
     recreate |-> "not_called", leak |-> FALSE, delay |-> RECONNECT_BASE_DELAY_SEC]

\* Lines 557-583: the session is down, retry_count was incremented to r.
DownOutcome(st, rc, order, refused) ==
    LET r == st.retry + 1 IN
    IF rc.ret = "new"
    THEN Outcome(SwapAndResubscribe([st EXCEPT !.retry = r], rc, order, refused),
                 "down_swap", "no", "new", rc.old.state = "open", 0)
    ELSE IF r >= max_retries
    THEN Outcome([st EXCEPT !.retry = r, !.ws = rc.old],
                 "down_fatal", "reconnect_budget", "none", FALSE, ReconnectDelay(r))
    ELSE Outcome([st EXCEPT !.retry = r, !.ws = rc.old],
                 "down_fail", "no", "none", FALSE, ReconnectDelay(r))

\* A handler that always pauses and retries (sensitivity variant of
\* ExceptionOutcome).
ExceptionOutcomeRetries(st) ==
    [st |-> [st EXCEPT !.retry = @ + 1], path |-> "exc_retry", exit |-> "no",
     recreate |-> "not_called", leak |-> FALSE, delay |-> RECONNECT_MAX_DELAY_SEC]

\* Lines 599-609: except Exception.
ExceptionOutcome(st) ==
    LET r == st.retry + 1 IN
    IF r >= max_retries
    THEN Outcome([st EXCEPT !.retry = r], "exc_fatal", "loop_exceptions",
                 "not_called", FALSE, 0)
    ELSE Outcome([st EXCEPT !.retry = r], "exc_retry", "no",
                 "not_called", FALSE, Min(30 * r, 300))

\* An iteration that retries inside the body instead of going back to the
\* loop head (sensitivity variant of AfterTick).
AfterTickInner(exit) == IF exit = "no" THEN "tick" ELSE "exited"

\* Where the worker is after an iteration: every path without `break` ends
\* in a sleep or `continue` and goes back to the `while` test; `break` leaves
\* the loop.
AfterTick(exit) == IF exit = "no" THEN "running" ELSE "exited"

\* The iteration's effect on the program state, and its record.
Finish(out, universe_read, universe) ==
    /\ subscribed_wallets' = out.st.subs
    /\ ws' = out.st.ws
    /\ connection_status' = out.st.conn
    /\ rate_limiter' = out.st.rl
    /\ retry_count' = IF out.exit = "no" THEN out.st.retry ELSE 0
    /\ pc' = AfterTick(out.exit)
    /\ exit_cause' = IF out.exit = "no" THEN exit_cause ELSE out.exit
    /\ obs' = [kind |-> "tick", path |-> out.path, exit |-> out.exit,
               universe_read |-> universe_read, universe |-> universe,
               start |-> Start, sub_calls |-> out.st.sub_calls,
               swap_at |-> out.st.swap_at,
               unsub_calls |-> out.st.unsub_calls, sent |-> out.st.sent,
               recreate |-> out.recreate,
               leak |-> out.leak, retry |-> out.st.retry, delay |-> out.delay]
    /\ UNCHANGED <<shutdown_event, tracked_wallets, user_settings, notification_queue, sender, token_cache,
                   health_access, threads, poller>>

\* ------------------------------------------------------------------------
\* monitor_worker: actions
\* ------------------------------------------------------------------------
Universe == GetAllUniqueWallets(tracked_wallets)

\* main(): threading.Thread(target=monitoring.monitor_worker).start()
MainStartsWorker ==
    /\ Quiet
    /\ pc = "not_started"
    /\ pc' = "init"
    /\ UNCHANGED <<exit_cause, shutdown_event, tracked_wallets, user_settings,
                   subscribed_wallets, connection_status, rate_limiter, ws,
                   retry_count, sender, notification_queue, token_cache, obs,
                   health_access, threads, poller>>

\* start_monitoring(): refuses once shutdown was requested, starts a thread
\* when none is alive.  The specifications that use this action call it only
\* while no worker runs at all; what it does while the worker of main() is
\* alive, or from two threads, is StartMonitoringChecks / StartMonitoringStarts.
StartMonitoring ==
    /\ Quiet
    /\ ~shutdown_event
    /\ pc \in {"not_started", "exited"}
    /\ pc' = "init"
    /\ exit_cause' = "none"
    /\ UNCHANGED <<shutdown_event, tracked_wallets, user_settings,
                   subscribed_wallets, connection_status, rate_limiter, ws,
                   retry_count, sender, notification_queue, token_cache, obs,
                   health_access, threads, poller>>

\* monitor_worker, lines 461-474: ws = _recreate_ws(None); return when None.
\* Nothing is closed here (the session a previous worker left in ws_manager
\* is not looked at), and subscribed_wallets is left as it is.
WorkerInit ==
    /\ Quiet
    /\ pc = "init"
    /\ \E raised \in BOOLEAN, ready_from \in ReadyTimes, health \in Health \ {"up"} :
          LET rc == RecreateWs(NoWs, connection_status, TRUE,
                               RecreateResult(raised, ready_from), health) IN
          /\ obs' = [kind |-> "init", recreate |-> rc.ret,
                     leak |-> rc.ret = "new" /\ ws.state = "open",
                     raised |-> raised, ready_from |-> ready_from,
                     wait |-> WaitForConnection(0, 0, ready_from)]
          /\ IF rc.ret = "none"
             THEN /\ pc' = "exited"
                  /\ exit_cause' = "init_failed"
                  /\ UNCHANGED <<ws, connection_status, retry_count>>
             ELSE /\ pc' = "running"
                  /\ ws' = rc.new
                  /\ connection_status' = rc.conn
                  /\ retry_count' = 0
                  /\ UNCHANGED exit_cause
    /\ UNCHANGED <<shutdown_event, tracked_wallets, user_settings,
                   subscribed_wallets, rate_limiter, notification_queue, sender, token_cache,
                   health_access, threads, poller>>

\* while not shutdown_event.is_set(): the loop is left at its head (the
\* local retry_count ends with the function).
MonitorLoopExit ==
    /\ Quiet
    /\ pc = "running"
    /\ shutdown_event
    /\ pc' = "exited"
    /\ exit_cause' = "shutdown"
    /\ retry_count' = 0
    /\ UNCHANGED <<shutdown_event, tracked_wallets, user_settings,
                   subscribed_wallets, connection_status, rate_limiter, ws,
                   notification_queue, sender, token_cache, obs,
                   health_access, threads, poller>>

\* while not shutdown_event.is_set(): the flag is clear and the body is
\* entered.  The body does not look at the flag again.
LoopHead ==
    /\ Quiet
    /\ pc = "running"
    /\ ~shutdown_event
    /\ pc' = "tick"
    /\ UNCHANGED <<exit_cause, shutdown_event, tracked_wallets, user_settings,
                   subscribed_wallets, connection_status, rate_limiter, ws,
                   retry_count, sender, notification_queue, token_cache, obs,
                   health_access, threads, poller>>

\* The body of an iteration runs, up to and including its final sleep.
TickEnabled == Quiet /\ pc = "tick"

\* database.get_all_unique_wallets() raises: nothing of the body has run.
TickDbError ==
    /\ TickEnabled
    /\ Finish(ExceptionOutcome(Start), FALSE, {})

\* The body up to the health check, for every iteration order and every
\* behaviour of the transport's subscribe / unsubscribe.
Reconciled(order, refused, accepted) == Reconcile(Start, Universe, order, refused, accepted)

\* The health probe (ws.ws_ready / ws.is_alive()) raises after the
\* subscriptions were reconciled.
TickProbeError ==
    /\ TickEnabled
    /\ \E order \in Orderings(Universe \ subscribed_wallets),
          refused \in SUBSET (Universe \ subscribed_wallets),
          accepted \in SUBSET (subscribed_wallets \ Universe) :
          Finish(ExceptionOutcome(Reconciled(order, refused, accepted)), TRUE, Universe)

\* A silence test at the warning threshold (sensitivity variant of
\* SilentTooLong).
SilentTooLongAtWarn(conn) == conn.heartbeat_age > HEARTBEAT_WARN_SEC

\* if idle_sec > HEARTBEAT_RECONNECT_SEC
SilentTooLong(conn) == conn.heartbeat_age > HEARTBEAT_RECONNECT_SEC

\* ws_connected and connection_status["connected"], idle time within
\* HEARTBEAT_RECONNECT_SEC.
TickSteady ==
    /\ TickEnabled
    /\ WsConnected(ws) /\ connection_status.connected
    /\ ~SilentTooLong(connection_status)
    /\ \E order \in Orderings(Universe \ subscribed_wallets),
          refused \in SUBSET (Universe \ subscribed_wallets),
          accepted \in SUBSET (subscribed_wallets \ Universe) :
          Finish(SteadyOutcome(Reconciled(order, refused, accepted)), TRUE, Universe)

\* A reconnect attempt: _recreate_ws(ws) and, when a manager is returned,
\* the re-subscription.
Reconnect(st, silence) ==
    \E close_ok \in BOOLEAN, result \in RecreateResults :
       \E health \in IF result = "timeout" THEN Health \ {"up"} ELSE {"up"} :
          LET rc == RecreateWs(st.ws, st.conn, close_ok, result, health) IN
          \E order2 \in IF rc.ret = "new" THEN Orderings(Universe) ELSE {<< >>},
             refused2 \in IF rc.ret = "new" THEN SUBSET Universe ELSE {{}} :
             Finish(IF silence THEN SilenceOutcome(st, rc, order2, refused2)
                               ELSE DownOutcome(st, rc, order2, refused2),
                    TRUE, Universe)

\* ws_connected and connection_status["connected"], but silent for more
\* than HEARTBEAT_RECONNECT_SEC.
TickSilence ==
    /\ TickEnabled
    /\ WsConnected(ws) /\ connection_status.connected
    /\ SilentTooLong(connection_status)
    /\ \E order \in Orderings(Universe \ subscribed_wallets),
          refused \in SUBSET (Universe \ subscribed_wallets),
          accepted \in SUBSET (subscribed_wallets \ Universe) :
          Reconnect(Reconciled(order, refused, accepted), TRUE)

\* not (ws_connected and connection_status["connected"]).
TickDown ==
    /\ TickEnabled
    /\ ~(WsConnected(ws) /\ connection_status.connected)
    /\ \E order \in Orderings(Universe \ subscribed_wallets),
          refused \in SUBSET (Universe \ subscribed_wallets),
          accepted \in SUBSET (subscribed_wallets \ Universe) :
          LET st == Reconciled(order, refused, accepted) IN
          IF st.retry + 1 >= MAX_RECONNECT_ATTEMPTS
          THEN Finish(CooldownOutcome(st), TRUE, Universe)
          ELSE Reconnect(st, FALSE)

\* stop_monitoring() / handle_shutdown(): set the flag, close ws_manager
\* when there is one (an exception of close() is logged).  It runs on
\* another thread than the worker, at any point of an iteration.
StopMonitoring ==
    /\ Quiet
    /\ ~shutdown_event
    /\ shutdown_event' = TRUE
    /\ \E close_ok \in BOOLEAN : ws' = CloseWs(ws, close_ok)
    /\ UNCHANGED <<pc, exit_cause, tracked_wallets, user_settings,
                   subscribed_wallets, connection_status, rate_limiter,
                   retry_count, sender, notification_queue, token_cache, obs,
                   health_access, threads, poller>>

\* ------------------------------------------------------------------------
\* Environment: the clock, the transport, the command handlers
\* ------------------------------------------------------------------------
\* The clock advances in steps of three minutes: after one step without an
\* event the idle time is above HEARTBEAT_WARN_SEC, after two it is above
\* HEARTBEAT_RECONNECT_SEC, and every step starts a new rate-limiter minute.
ClockStep == 3 * MINUTE_SEC
AgeCap == 2 * ClockStep

ClockAdvance ==
    /\ Quiet
    /\ connection_status' =
          [connection_status EXCEPT !.heartbeat_age = Min(@ + ClockStep, AgeCap)]
    /\ rate_limiter' = [rate_limiter EXCEPT !.minute_age = MINUTE_SEC]
    /\ UNCHANGED <<pc, exit_cause, shutdown_event, tracked_wallets, user_settings,
                   subscribed_wallets, ws, retry_count, sender,
                   notification_queue, token_cache, obs,
                   health_access, threads, poller>>

\* The open session's ws_ready / is_alive() change.
TransportChange ==
    /\ Quiet
    /\ ws.state = "open"
    /\ \E h \in Health \ {ws.health} : ws' = [ws EXCEPT !.health = h]
    /\ UNCHANGED <<pc, exit_cause, shutdown_event, tracked_wallets, user_settings,
                   subscribed_wallets, connection_status, rate_limiter,
                   retry_count, sender, notification_queue, token_cache, obs,
                   health_access, threads, poller>>

\* on_connection_status_change(connected)
OnConnectionStatusChange ==
    /\ Quiet
    /\ ws.state = "open"
    /\ \E connected \in BOOLEAN :
          connection_status' = [connection_status EXCEPT !.connected = connected]
    /\ UNCHANGED <<pc, exit_cause, shutdown_event, tracked_wallets, user_settings,
                   subscribed_wallets, rate_limiter, ws, retry_count, sender,
                   notification_queue, token_cache, obs,
                   health_access, threads, poller>>

\* handlers.add_wallet -> database.add_wallet_to_db
AddWallet(chat_id, address) ==
    /\ Quiet
    /\ tracked_wallets' = AddWalletToDb(tracked_wallets, chat_id, address)
    /\ UNCHANGED <<pc, exit_cause, shutdown_event, user_settings,
                   subscribed_wallets, connection_status, rate_limiter, ws,
                   retry_count, sender, notification_queue, token_cache, obs,
                   health_access, threads, poller>>

\* handlers.remove_wallet -> database.remove_wallet_from_db
RemoveWallet(chat_id, address) ==
    /\ Quiet
    /\ tracked_wallets' = RemoveWalletFromDb(tracked_wallets, chat_id, address)
    /\ UNCHANGED <<pc, exit_cause, shutdown_event, user_settings,
                   subscribed_wallets, connection_status, rate_limiter, ws,
                   retry_count, sender, notification_queue, token_cache, obs,
                   health_access, threads, poller>>

\* The record of the finished step is dropped.
Observed ==
    /\ obs # NoObs
    /\ obs' = NoObs
    /\ UNCHANGED <<pc, exit_cause, shutdown_event, tracked_wallets, user_settings,
                   subscribed_wallets, connection_status, rate_limiter, ws,
                   retry_count, sender, notification_queue, token_cache,
                   health_access, threads, poller>>

\* ------------------------------------------------------------------------
\* Provider messages.  A fill or an order's details: the wallet ("user"),
\* px, sz, whether float(px) / float(sz) raises (ok = FALSE), and the kind
\* of its "coin": a name ("BTC"), a number ("107"), "@" and a number
\* ("@107"), "@" and something else, None or empty ("none"), or no "coin"
\* key at all ("missing").
\* ------------------------------------------------------------------------
CoinKinds == {"name", "number", "at_number", "at_name", "none", "missing"}

Item(user, px, sz, ok) ==
    [user |-> user, px |-> px, sz |-> sz, ok |-> ok, coin |-> "name"]
NoItem ==
    [user |-> NoAddress, px |-> 0, sz |-> 0, ok |-> TRUE, coin |-> "missing",
     present |-> FALSE]
WithCoin(item, coin) == [item EXCEPT !.coin = coin]

\* An element of orderUpdates, or the data of a typed orderUpdate: the
\* sub-key that is present ("none": neither placed nor canceled/cancelled),
\* its details ({} when present = FALSE) and the wrapper's own "user".
Wrapper(key, user, px, sz, ok, present) ==
    [key |-> key, user |-> NoAddress,
     details |-> [user |-> user, px |-> px, sz |-> sz, ok |-> ok, coin |-> "name",
                  present |-> present]]

Event(channel, fills, updates, type, data) ==
    [empty |-> FALSE, channel |-> channel, user |-> NoAddress,
     fills |-> fills, orderUpdates |-> updates, type |-> type, data |-> data]

EmptyEvent == [empty |-> TRUE]

\* The Notification put on the queue, with what decided it.
Notification(chat_id, kind, action, wallet, size_usd, shape) ==
    [chat_id |-> chat_id, kind |-> kind, order_action |-> action,
     wallet |-> wallet, size_usd |-> size_usd, shape |-> shape]

\* What the model's queue keeps of a Notification (payload and timestamp
\* are left out of the queue; obs holds what was put in full).
Queued(n) == [chat_id |-> n.chat_id, kind |-> n.kind, order_action |-> n.order_action]

RECURSIVE Concat(_, _)
Concat(A, B) == {a \o b : a \in A, b \in B}

\* size_usd = price * size
FillSizeUsd(item) == item.px * item.sz

\* size_usd = price * size if price and size else 0.0
OrderSizeUsd(item) == IF item.px # 0 /\ item.sz # 0 THEN item.px * item.sz ELSE 0

\* A comparison that lets every event through (sensitivity variant of
\* PassesThreshold).
PassesAlways(size_usd, threshold) == size_usd >= 0

\* if size_usd >= user_threshold: put_nowait(...)
PassesThreshold(size_usd, threshold) == size_usd >= threshold

\* for chat_id in tracking_users: ... for one iteration order of the rows.
FillNotifications(rows, settings, wallet, size_usd, shape) ==
    LET hits == SelectSeq(rows,
                    LAMBDA row : PassesThreshold(size_usd, GetUserThreshold(settings, row[1])))
    IN  [i \in 1..Len(hits) |->
            Notification(hits[i][1], "fill", "none", wallet, size_usd, shape)]

OrderNotifications(rows, settings, wallet, size_usd, action, shape) ==
    LET hits == SelectSeq(rows,
                    LAMBDA row : PassesThreshold(size_usd, GetUserOrderThreshold(settings, row[1])))
    IN  [i \in 1..Len(hits) |->
            Notification(hits[i][1], "order", action, wallet, size_usd, shape)]

\* The sequences of Notifications one element of evt["fills"] can produce
\* (one per order in which the tracking rows may be returned).
BatchFillOutcomes(tracked, settings, evt, fill) ==
    LET raw == IF fill.user # NoAddress THEN fill.user ELSE evt.user
        wallet == LowerStr(raw)
    IN  IF ~fill.ok \/ wallet = NoAddress THEN {<< >>}
        ELSE {FillNotifications(rows, settings, wallet, FillSizeUsd(fill), "batch") :
                rows \in Orderings(GetUsersTrackingWallet(tracked, wallet))}

OrderAction(key) == IF key = "placed" THEN "placed" ELSE "canceled"

BatchOrderOutcomes(tracked, settings, evt, update) ==
    LET details == update.details
        raw == IF details.user # NoAddress THEN details.user
               ELSE IF update.user # NoAddress THEN update.user ELSE evt.user
        wallet == LowerStr(raw)
    IN  IF update.key = "none" \/ ~details.present \/ ~details.ok \/ wallet = NoAddress
        THEN {<< >>}
        ELSE {OrderNotifications(rows, settings, wallet, OrderSizeUsd(details),
                                 OrderAction(update.key), "batch") :
                rows \in Orderings(GetUsersTrackingWallet(tracked, wallet))}

\* A loop over evt["fills"] without the handler around each element: the
\* first element that raises ends the loop (sensitivity variant of
\* BatchFills).
RECURSIVE BatchFillsUnguarded(_, _, _, _)
BatchFillsUnguarded(tracked, settings, evt, i) ==
    IF i > Len(evt.fills) \/ ~evt.fills[i].ok THEN {<< >>}
    ELSE Concat(BatchFillOutcomes(tracked, settings, evt, evt.fills[i]),
                BatchFillsUnguarded(tracked, settings, evt, i + 1))

\* for fill in evt["fills"]: try: ... except Exception: log.  Every element
\* is handled, whatever the others did.
RECURSIVE BatchFills(_, _, _, _)
BatchFills(tracked, settings, evt, i) ==
    IF i > Len(evt.fills) THEN {<< >>}
    ELSE Concat(BatchFillOutcomes(tracked, settings, evt, evt.fills[i]),
                BatchFills(tracked, settings, evt, i + 1))

RECURSIVE BatchOrders(_, _, _, _)
BatchOrders(tracked, settings, evt, i) ==
    IF i > Len(evt.orderUpdates) THEN {<< >>}
    ELSE Concat(BatchOrderOutcomes(tracked, settings, evt, evt.orderUpdates[i]),
                BatchOrders(tracked, settings, evt, i + 1))

\* evt_type == "fill": no check that the wallet is present; an exception
\* leaves the callback through the outer handler.
TypedFillOutcomes(tracked, settings, evt) ==
    LET fill == evt.data
        wallet == LowerStr(fill.user)
    IN  IF ~fill.ok \/ fill.coin = "missing" THEN {<< >>}
        ELSE {FillNotifications(rows, settings, wallet, FillSizeUsd(fill), "typed") :
                rows \in Orderings(GetUsersTrackingWallet(tracked, wallet))}

\* evt_type in ("orderUpdate", "order_update", "order")
TypedOrderOutcomes(tracked, settings, evt) ==
    LET update == evt.data
        details == update.details
        raw == IF details.user # NoAddress THEN details.user ELSE update.user
        wallet == LowerStr(raw)
    IN  IF update.key = "none" \/ ~details.present \/ ~details.ok \/ wallet = NoAddress
        THEN {<< >>}
        ELSE {OrderNotifications(rows, settings, wallet, OrderSizeUsd(details),
                                 OrderAction(update.key), "typed") :
                rows \in Orderings(GetUsersTrackingWallet(tracked, wallet))}

TypedOutcomes(tracked, settings, evt) ==
    CASE evt.type = "fill" -> TypedFillOutcomes(tracked, settings, evt)
      [] evt.type = "orderUpdate" -> TypedOrderOutcomes(tracked, settings, evt)
      [] OTHER -> {<< >>}

\* A callback that skips the typed shape when the message carried a batch
\* (sensitivity variant of EventOutcomes).
EventOutcomesDeduplicated(tracked, settings, event) ==
    IF event.empty THEN {<< >>}
    ELSE IF event.channel \notin {"userEvents", "user"} THEN {<< >>}
    ELSE IF event.fills # << >> \/ event.orderUpdates # << >>
    THEN Concat(BatchFills(tracked, settings, event, 1),
                BatchOrders(tracked, settings, event, 1))
    ELSE TypedOutcomes(tracked, settings, event)

\* on_user_event(event): every sequence of Notifications the call can try
\* to put, in the order of the puts.
EventOutcomes(tracked, settings, event) ==
    IF event.empty THEN {<< >>}
    ELSE IF event.channel \notin {"userEvents", "user"} THEN {<< >>}
    ELSE Concat(BatchFills(tracked, settings, event, 1),
                Concat(BatchOrders(tracked, settings, event, 1),
                       TypedOutcomes(tracked, settings, event)))

\* Where the exceptions of one call end: in the handler around a batch
\* element (float() of a malformed px / sz), in the handler around the whole
\* body (a typed fill or order that cannot be read).  Both handlers log and
\* return normally.
CaughtBy(event) ==
    IF event.empty THEN [item |-> FALSE, outer |-> FALSE]
    ELSE IF event.channel \notin {"userEvents", "user"} THEN [item |-> FALSE, outer |-> FALSE]
    ELSE [item |-> \/ \E i \in 1..Len(event.fills) : ~event.fills[i].ok
                   \/ \E i \in 1..Len(event.orderUpdates) :
                         LET u == event.orderUpdates[i] IN
                         u.key # "none" /\ u.details.present /\ ~u.details.ok,
          outer |-> \/ event.type = "fill"
                       /\ (~event.data.ok \/ event.data.coin = "missing")
                    \/ event.type = "orderUpdate"
                       /\ event.data.key # "none" /\ event.data.details.present
                       /\ ~event.data.details.ok]

\* convert_token_number_to_name(coin) consults get_token_name_mapping for
\* "107" and "@107" only.
NeedsMapping(coin) == coin \in {"number", "at_number"}

\* The coins on_user_event hands to convert_token_number_to_name, in order:
\* every element of fills, every orderUpdates element with details, the
\* typed fill (fill["coin"] raises when the key is missing), the typed
\* order with details.  An order without a coin is converted as "?".
OrderCoin(update) == IF update.details.coin \in {"none", "missing"} THEN "name"
                     ELSE update.details.coin

ConvertedCoins(event) ==
    IF event.empty THEN << >>
    ELSE IF event.channel \notin {"userEvents", "user"} THEN << >>
    ELSE [i \in 1..Len(event.fills) |-> event.fills[i].coin]
         \o [i \in 1..Len(SelectSeq(event.orderUpdates,
                               LAMBDA u : u.key # "none" /\ u.details.present)) |->
                OrderCoin(SelectSeq(event.orderUpdates,
                               LAMBDA u : u.key # "none" /\ u.details.present)[i])]
         \o (CASE event.type = "fill" /\ event.data.coin # "missing" -> <<event.data.coin>>
               [] /\ event.type = "orderUpdate"
                  /\ event.data.key # "none" /\ event.data.details.present ->
                     <<OrderCoin(event.data)>>
               [] OTHER -> << >>)

\* What Info(MAINNET_API_URL).meta() does when it is called.
NetResults == {"failed", "mapping", "empty"}

\* get_token_name_mapping(): the cache is returned while it is fresh and
\* not empty; otherwise the meta API is called over the network, and the
\* cache and its timestamp are replaced unless the call raised.
GetTokenNameMapping(cache, net) ==
    IF cache.fresh /\ cache.loaded THEN [cache |-> cache, calls |-> 0]
    ELSE IF net = "failed" THEN [cache |-> cache, calls |-> 1]
    ELSE [cache |-> [loaded |-> net = "mapping", fresh |-> TRUE], calls |-> 1]

\* The conversions of one callback: the cache afterwards and the number of
\* network calls made.
RECURSIVE ConvertAll(_, _, _, _, _)
ConvertAll(cache, coins, i, net, calls) ==
    IF i > Len(coins) THEN [cache |-> cache, calls |-> calls]
    ELSE IF NeedsMapping(coins[i])
         THEN LET r == GetTokenNameMapping(cache, net)
              IN  ConvertAll(r.cache, coins, i + 1, net, calls + r.calls)
         ELSE ConvertAll(cache, coins, i + 1, net, calls)

\* The network behaviours that matter to a callback: one when it makes no
\* network call.
NetChoices(cache, event) ==
    IF ConvertAll(cache, ConvertedCoins(event), 1, "failed", 0).calls = 0
    THEN {"mapping"} ELSE NetResults

\* put_nowait on the module's queue: nothing is put while it is None.
PutAll(queue, notifications) ==
    IF queue.initialised
    THEN [queue EXCEPT !.items = @ \o [i \in 1..Len(notifications) |-> Queued(notifications[i])]]
    ELSE queue

\* on_user_event, called by an open session's transport thread.
OnUserEvent(event) ==
    /\ Quiet
    /\ ws.state = "open"
    /\ connection_status' = [connected |-> TRUE, heartbeat_age |-> 0]
    /\ \E passed \in EventOutcomes(tracked_wallets, user_settings, event),
          net \in NetChoices(token_cache, event) :
          LET converted == ConvertAll(token_cache, ConvertedCoins(event), 1, net, 0) IN
          /\ Len(notification_queue.items) + Len(passed) <= MaxQueue
          /\ notification_queue' = PutAll(notification_queue, passed)
          /\ token_cache' = converted.cache
          /\ obs' = [kind |-> "event", event |-> event, passed |-> passed,
                     queue_before |-> notification_queue.items,
                     caught_by |-> CaughtBy(event),
                     enqueued |-> IF notification_queue.initialised THEN passed
                                  ELSE << >>,
                     network_calls |-> converted.calls]
    /\ UNCHANGED <<pc, exit_cause, shutdown_event, tracked_wallets, user_settings,
                   subscribed_wallets, rate_limiter, ws, retry_count, sender,
                   health_access, threads, poller>>

\* CACHE_DURATION has passed since the mapping was fetched.
CacheExpires ==
    /\ Quiet
    /\ token_cache.fresh
    /\ token_cache' = [token_cache EXCEPT !.fresh = FALSE]
    /\ UNCHANGED <<pc, exit_cause, shutdown_event, tracked_wallets, user_settings,
                   subscribed_wallets, connection_status, rate_limiter, ws,
                   retry_count, sender, notification_queue, obs,
                   health_access, threads, poller>>

\* main.post_init -> monitoring.init_notification_queue(), then
\* asyncio.create_task(notification_sender(app)).
PostInit ==
    /\ Quiet
    /\ ~notification_queue.initialised
    /\ notification_queue' = [initialised |-> TRUE, items |-> << >>]
    /\ sender' = "running"
    /\ UNCHANGED <<pc, exit_cause, shutdown_event, tracked_wallets, user_settings,
                   subscribed_wallets, connection_status, rate_limiter, ws,
                   retry_count, token_cache, obs,
                   health_access, threads, poller>>

\* await asyncio.sleep(5) in notification_sender's outer handler.
SENDER_PAUSE_SEC == 5

\* What handling one notification can meet: the message is sent, send_message
\* raises TelegramError, the formatter raises, send_message raises something
\* else.
SendBehaviours == {"sent", "telegram_error", "format_raises", "send_raises"}

\* A loop that an exception of the formatter ends (sensitivity variant of
\* Dispatch).
DispatchUnguarded(items, behaviour) ==
    [items |-> Tail(items), taken |-> Head(items),
     attempts |-> IF behaviour = "format_raises" THEN 0 ELSE 1,
     fate |-> IF behaviour = "sent" THEN "delivered" ELSE "dropped",
     pause |-> 0, alive |-> behaviour # "format_raises"]

\* A consumer that takes the newest notification (sensitivity variant of
\* Dispatch).
DispatchNewest(items, behaviour) ==
    [items |-> SubSeq(items, 1, Len(items) - 1), taken |-> items[Len(items)],
     attempts |-> IF behaviour = "format_raises" THEN 0 ELSE 1,
     fate |-> IF behaviour = "sent" THEN "delivered" ELSE "dropped",
     pause |-> 0, alive |-> TRUE]

\* One iteration of notification_sender's loop on a non-empty queue: get()
\* removes the oldest item; an item without chat_id is dropped with a warning; the message
\* is formatted and sent once; TelegramError is logged; anything else is
\* logged by the outer handler, which pauses SENDER_PAUSE_SEC; the loop goes
\* on in every case.
Dispatch(items, behaviour) ==
    LET taken == Head(items)
        skipped == taken.chat_id = 0
    IN  [items |-> Tail(items), taken |-> taken,
         attempts |-> IF skipped \/ behaviour = "format_raises" THEN 0 ELSE 1,
         fate |-> IF ~skipped /\ behaviour = "sent" THEN "delivered" ELSE "dropped",
         pause |-> IF ~skipped /\ behaviour \in {"format_raises", "send_raises"}
                   THEN SENDER_PAUSE_SEC ELSE 0,
         alive |-> TRUE]

\* main.notification_sender, one iteration.
NotificationSender ==
    /\ Quiet
    /\ sender = "running"
    /\ notification_queue.items # << >>
    /\ \E behaviour \in SendBehaviours :
          LET d == Dispatch(notification_queue.items, behaviour) IN
          /\ notification_queue' = [notification_queue EXCEPT !.items = d.items]
          /\ sender' = IF d.alive THEN "running" ELSE "stopped"
          /\ obs' = [kind |-> "dispatch", before |-> notification_queue.items,
                     taken |-> d.taken, attempts |-> d.attempts, fate |-> d.fate,
                     pause |-> d.pause, behaviour |-> behaviour]
    /\ UNCHANGED <<pc, exit_cause, shutdown_event, tracked_wallets, user_settings,
                   subscribed_wallets, connection_status, rate_limiter, ws,
                   retry_count, token_cache,
                   health_access, threads, poller>>

\* handlers.set_threshold_command -> database.set_user_threshold
SetThreshold(chat_id, threshold) ==
    /\ Quiet
    /\ user_settings' = SetUserThreshold(user_settings, chat_id, threshold)
    /\ UNCHANGED <<pc, exit_cause, shutdown_event, tracked_wallets,
                   subscribed_wallets, connection_status, rate_limiter, ws,
                   retry_count, sender, notification_queue, token_cache, obs,
                   health_access, threads, poller>>

\* handlers.set_order_threshold_command -> database.set_user_order_threshold
SetOrderThreshold(chat_id, threshold) ==
    /\ Quiet
    /\ user_settings' = SetUserOrderThreshold(user_settings, chat_id, threshold)
    /\ UNCHANGED <<pc, exit_cause, shutdown_event, tracked_wallets,
                   subscribed_wallets, connection_status, rate_limiter, ws,
                   retry_count, sender, notification_queue, token_cache, obs,
                   health_access, threads, poller>>

\* ------------------------------------------------------------------------
\* The messages and commands the environment issues
\* ------------------------------------------------------------------------
EventUsers == {Addr1, UpperStr(Addr1), Addr2, Addr1Short, Addr1Tiny, AddrPattern, NoAddress}
Sizes == {5, 400}

GoodItems == {Item(u, 300, sz, TRUE) : u \in EventUsers, sz \in Sizes}
BadItem == Item(Addr1, 300, 400, FALSE)
OrderKeys == {"placed", "canceled", "cancelled"}
GoodWrappers == {Wrapper(k, Addr1, 300, sz, TRUE, TRUE) : k \in OrderKeys, sz \in Sizes}
OddWrappers == {Wrapper("none", Addr1, 300, 400, TRUE, TRUE),
                Wrapper("placed", Addr1Short, 300, 400, TRUE, TRUE),
                Wrapper("placed", Addr1, 300, 400, TRUE, FALSE),
                Wrapper("placed", Addr1, 300, 400, FALSE, TRUE),
                Wrapper("placed", NoAddress, 300, 400, TRUE, TRUE),
                Wrapper("placed", Addr1, 0, 400, TRUE, TRUE)}

Events ==
    {EmptyEvent}
    \cup {Event("other", <<Item(Addr1, 300, 400, TRUE)>>, << >>, "none", NoItem)}
    \cup {Event("userEvents", <<f>>, << >>, "none", NoItem) : f \in GoodItems \cup {BadItem}}
    \cup {Event("userEvents", <<BadItem, Item(Addr1, 300, 400, TRUE)>>, << >>, "none", NoItem)}
    \cup {Event("userEvents", <<Item(NoAddress, 300, 400, TRUE), Item(Addr1, 300, 400, TRUE)>>,
                 << >>, "none", NoItem)}
    \cup {Event("userEvents", << >>,
                 <<Wrapper("placed", Addr1, 300, 400, FALSE, TRUE),
                   Wrapper("canceled", Addr1, 300, 400, TRUE, TRUE)>>, "none", NoItem)}
    \cup {Event("user", << >>, << >>, "fill", f) : f \in GoodItems \cup {BadItem}}
    \cup {Event("userEvents", << >>, <<w>>, "none", NoItem) : w \in GoodWrappers \cup OddWrappers}
    \cup {Event("user", << >>, << >>, "orderUpdate", w) : w \in GoodWrappers \cup OddWrappers}
    \cup {Event("userEvents", <<f>>, << >>, "fill", f) : f \in {Item(Addr1, 300, 400, TRUE)}}
    \cup {Event("userEvents", << >>, <<w>>, "orderUpdate", w) :
            w \in {Wrapper("placed", Addr1, 300, 400, TRUE, TRUE)}}

\* The only message the reconciler's specification delivers: it refreshes
\* connection_status and carries nothing else.
HeartbeatEvents == {EmptyEvent}

TradeThresholds == {1000, 2000}
OrderThresholds == {1000}

Init ==
    /\ pc = "not_started"
    /\ exit_cause = "none"
    /\ shutdown_event = FALSE
    /\ tracked_wallets = {}
    /\ user_settings = << >>
    /\ subscribed_wallets = {}
    /\ connection_status = [connected |-> FALSE, heartbeat_age |-> AgeCap]
    /\ rate_limiter = [current_requests |-> 0, minute_age |-> 0]
    /\ ws = NoWs
    /\ retry_count = 0
    /\ notification_queue = [initialised |-> FALSE, items |-> << >>]
    /\ token_cache = [loaded |-> FALSE, fresh |-> FALSE]
    /\ sender = "not_started"
    /\ health_access = NoAccess
    /\ threads = NoThreads
    /\ poller = NewPoller
    /\ obs = NoObs

Next ==
    \/ Observed
    \/ MainStartsWorker
    \/ StartMonitoring
    \/ WorkerInit
    \/ LoopHead
    \/ TickDbError
    \/ TickProbeError
    \/ TickSteady
    \/ TickSilence
    \/ TickDown
    \/ ClockAdvance
    \/ TransportChange
    \/ OnConnectionStatusChange
    \/ \E event \in HeartbeatEvents : OnUserEvent(event)
    \/ \E address \in Wallets : AddWallet(101, address)
    \/ \E address \in Wallets : RemoveWallet(101, address)

\* The reconciler: monitor_worker with its environment, while no shutdown
\* is requested.
Spec == Init /\ [][Next]_vars

\* The reconciler and a shutdown request that arrives at any point, with one
\* follower tracking at most one wallet.
NextShutdown ==
    \/ Observed
    \/ MainStartsWorker
    \/ StartMonitoring
    \/ WorkerInit
    \/ MonitorLoopExit
    \/ LoopHead
    \/ TickDbError
    \/ TickProbeError
    \/ TickSteady
    \/ TickSilence
    \/ TickDown
    \/ StopMonitoring
    \/ ClockAdvance
    \/ TransportChange
    \/ OnConnectionStatusChange
    \/ \E event \in HeartbeatEvents : OnUserEvent(event)
    \/ AddWallet(101, Addr1)
    \/ RemoveWallet(101, Addr1)

SpecShutdown == Init /\ [][NextShutdown]_vars

\* The reconciler with one follower tracking at most one wallet, while no
\* shutdown is requested.
NextSubscribe ==
    \/ Observed
    \/ MainStartsWorker
    \/ StartMonitoring
    \/ WorkerInit
    \/ LoopHead
    \/ TickDbError
    \/ TickProbeError
    \/ TickSteady
    \/ TickSilence
    \/ TickDown
    \/ ClockAdvance
    \/ TransportChange
    \/ OnConnectionStatusChange
    \/ \E event \in HeartbeatEvents : OnUserEvent(event)
    \/ AddWallet(101, Addr1)
    \/ RemoveWallet(101, Addr1)

\* The steps of the worker thread inside an iteration.
TickBody == TickDbError \/ TickProbeError \/ TickSteady \/ TickSilence \/ TickDown

\* The same, with a scheduler that keeps running the worker thread: its
\* blocking calls (sleeps, the 15 s connection wait, the database read)
\* return, and a step that is enabled again and again is taken.
SpecShutdownFair ==
    /\ SpecShutdown
    /\ WF_vars(Observed)
    /\ SF_vars(WorkerInit)
    /\ SF_vars(TickBody)
    /\ SF_vars(MonitorLoopExit)

\* The reconciler with a scheduler that keeps running the worker thread, and
\* a clock that keeps advancing.
SpecSubscribeFair ==
    /\ Init /\ [][NextSubscribe]_vars
    /\ WF_vars(Observed)
    /\ SF_vars(WorkerInit)
    /\ SF_vars(LoopHead)
    /\ SF_vars(TickBody)
    /\ SF_vars(ClockAdvance)

NextEvents ==
    \/ Observed
    \/ MainStartsWorker
    \/ WorkerInit
    \/ PostInit
    \/ NotificationSender
    \/ \E event \in Events : OnUserEvent(event)
    \/ \E address \in Wallets : AddWallet(101, address)
    \/ \E address \in Wallets : RemoveWallet(101, address)
    \/ AddWallet(102, Addr1)
    \/ RemoveWallet(102, Addr1)
    \/ \E threshold \in TradeThresholds : SetThreshold(101, threshold)
    \/ \E threshold \in OrderThresholds : SetOrderThreshold(101, threshold)

\* The ingestion path: on_user_event, the threshold store, the queue.
SpecEvents == Init /\ [][NextEvents]_vars

\* ------------------------------------------------------------------------
\* The coin conversion inside on_user_event.
\* ------------------------------------------------------------------------
CoinItems == {WithCoin(Item(Addr1, 300, sz, TRUE), coin) : sz \in Sizes, coin \in CoinKinds}

CoinEvents ==
    {Event("userEvents", <<f>>, << >>, "none", NoItem) : f \in CoinItems}
    \cup {Event("userEvents", <<f, g>>, << >>, "none", NoItem) :
            f \in {WithCoin(Item(Addr1, 300, 400, TRUE), "number")},
            g \in {WithCoin(Item(Addr1, 300, 400, ok), "at_number") : ok \in BOOLEAN}}
    \cup {Event("user", << >>, << >>, "fill", f) : f \in CoinItems}
    \cup {Event("userEvents", << >>,
                 <<[Wrapper("placed", Addr1, 300, 400, TRUE, TRUE) EXCEPT !.details.coin = coin]>>,
                 "none", NoItem) : coin \in CoinKinds}
    \cup {Event("user", << >>, << >>, "orderUpdate",
                 [Wrapper("canceled", Addr1, 300, 400, TRUE, TRUE) EXCEPT !.details.coin = coin]) :
            coin \in CoinKinds}

NextCoin ==
    \/ Observed
    \/ MainStartsWorker
    \/ WorkerInit
    \/ PostInit
    \/ NotificationSender
    \/ CacheExpires
    \/ \E event \in CoinEvents : OnUserEvent(event)
    \/ AddWallet(101, Addr1)
    \/ \E threshold \in TradeThresholds : SetThreshold(101, threshold)

SpecCoin == Init /\ [][NextCoin]_vars

\* ------------------------------------------------------------------------
\* The threshold lookups, on the store the commands produce and on every row
\* the user_settings table can hold (threshold REAL NOT NULL, order_threshold
\* REAL), and the events they filter.
\* ------------------------------------------------------------------------
StoredThresholds == {0 - 5, 0, 1000, 200000}
StoredOrderThresholds == {Null, 0 - 5, 0, 1000, 200000}
SettingsRows == [threshold : StoredThresholds, order_threshold : StoredOrderThresholds]
SettingsInputs == {<< >>} \cup {[c \in {101} |-> row] : row \in SettingsRows}

\* database.get_user_threshold(chat_id) and get_user_order_threshold(chat_id)
\* on a store.
GetThresholds(chat_id) ==
    /\ Quiet
    /\ \E settings \in {user_settings} \cup SettingsInputs :
          obs' = [kind |-> "threshold", settings |-> settings, chat_id |-> chat_id,
                  trade |-> GetUserThreshold(settings, chat_id),
                  order |-> GetUserOrderThreshold(settings, chat_id)]
    /\ UNCHANGED <<pc, exit_cause, shutdown_event, tracked_wallets, user_settings,
                   subscribed_wallets, connection_status, rate_limiter, ws,
                   retry_count, sender, notification_queue, token_cache,
                   health_access, threads, poller>>

ThresholdEvents ==
    {Event("userEvents", <<Item(Addr1, 300, sz, TRUE)>>, << >>, "none", NoItem) : sz \in Sizes}
    \cup {Event("userEvents", << >>, <<Wrapper(k, Addr1, 300, sz, TRUE, TRUE)>>, "none", NoItem) :
            k \in {"placed", "canceled"}, sz \in Sizes}
    \cup {Event("user", << >>, << >>, "orderUpdate", Wrapper("placed", Addr1, 300, sz, TRUE, TRUE)) :
            sz \in Sizes}

NextThresholds ==
    \/ Observed
    \/ MainStartsWorker
    \/ WorkerInit
    \/ PostInit
    \/ NotificationSender
    \/ \E event \in ThresholdEvents : OnUserEvent(event)
    \/ AddWallet(101, Addr1)
    \/ \E threshold \in TradeThresholds : SetThreshold(101, threshold)
    \/ \E threshold \in OrderThresholds : SetOrderThreshold(101, threshold)
    \/ \E chat_id \in ChatIds : GetThresholds(chat_id)

SpecThresholds == Init /\ [][NextThresholds]_vars

\* ------------------------------------------------------------------------
\* The pause after a failed reconnect, for every value of retry_count and
\* every jitter.
\* ------------------------------------------------------------------------
InitBackoff ==
    /\ pc = "running"
    /\ exit_cause = "none"
    /\ shutdown_event = FALSE
    /\ tracked_wallets = {}
    /\ user_settings = << >>
    /\ subscribed_wallets = {}
    /\ connection_status = [connected |-> FALSE, heartbeat_age |-> AgeCap]
    /\ rate_limiter = [current_requests |-> 0, minute_age |-> 0]
    /\ ws = [state |-> "open", health |-> "down", topics |-> {}]
    /\ retry_count \in 0..MAX_RECONNECT_ATTEMPTS
    /\ notification_queue = [initialised |-> FALSE, items |-> << >>]
    /\ token_cache = [loaded |-> FALSE, fresh |-> FALSE]
    /\ sender = "not_started"
    /\ health_access = NoAccess
    /\ threads = NoThreads
    /\ poller = NewPoller
    /\ obs = NoObs

\* Lines 536-542 and 572-578: delay, jitter, time.sleep(delay + jitter).
BackoffSleep ==
    /\ Quiet
    /\ \E jitter \in JitterTenths(ReconnectDelay(retry_count)) :
          obs' = [kind |-> "sleep", k |-> retry_count,
                  delay |-> ReconnectDelay(retry_count),
                  sleep |-> SleepTenths(ReconnectDelay(retry_count), jitter)]
    /\ UNCHANGED <<pc, exit_cause, shutdown_event, tracked_wallets, user_settings,
                   subscribed_wallets, connection_status, rate_limiter, ws,
                   retry_count, sender, notification_queue, token_cache,
                   health_access, threads, poller>>

NextBackoff ==
    \/ BackoffSleep
    \/ Observed

SpecBackoff == InitBackoff /\ [][NextBackoff]_vars

\* ========================================================================
\* Properties
\* ========================================================================
ThresholdFor(n) ==
    IF n.kind = "fill" THEN GetUserThreshold(user_settings, n.chat_id)
    ELSE GetUserOrderThreshold(user_settings, n.chat_id)

EnqueuedFor(chat_id) ==
    {i \in 1..Len(obs.enqueued) : obs.enqueued[i].chat_id = chat_id}

\* C1: every Notification a call of on_user_event enqueues, for a fill or
\* for a placed/canceled order, in the batched or the typed shape, has
\* size_usd >= the threshold of its kind for the follower it goes to.
C1_EnqueuedMeetsThreshold ==
    obs.kind = "event" =>
        \A i \in 1..Len(obs.enqueued) :
            obs.enqueued[i].size_usd >= ThresholdFor(obs.enqueued[i])

\* C1 witness: two followers track Addr1, a fill of 1500 arrives; 101
\* (threshold 1000) gets a Notification and 102 (default threshold) none.
C1_Witness ==
    /\ obs.kind = "event"
    /\ {<<101, Addr1>>, <<102, Addr1>>} \subseteq tracked_wallets
    /\ GetUserThreshold(user_settings, 101) = 1000
    /\ GetUserThreshold(user_settings, 102) = DEFAULT_TRADE_THRESHOLD_USD
    /\ Len(obs.enqueued) = 1
    /\ obs.enqueued[1].chat_id = 101
    /\ obs.enqueued[1].kind = "fill"
    /\ obs.enqueued[1].size_usd = 1500

\* A fill message in a single shape whose fill can be read and names a wallet.
SingleShapeFill(event) ==
    /\ ~event.empty
    /\ event.channel \in {"userEvents", "user"}
    /\ event.orderUpdates = << >>
    /\ \/ Len(event.fills) = 1 /\ event.type = "none"
       \/ event.fills = << >> /\ event.type = "fill"
    /\ LET fill == IF event.type = "fill" THEN event.data ELSE event.fills[1]
       IN  fill.ok /\ fill.user # NoAddress

TheFill(event) == IF event.type = "fill" THEN event.data ELSE event.fills[1]

\* C2: for a fill delivered in a single shape, every follower that tracks
\* the fill's wallet and whose trade threshold the notional reaches gets
\* exactly one Notification enqueued, whenever the event arrives after the
\* worker was started.
C2_ExactlyOnePerFollower ==
    (obs.kind = "event" /\ SingleShapeFill(obs.event)) =>
        \A chat_id \in ChatIds :
            (/\ <<chat_id, LowerStr(TheFill(obs.event).user)>> \in tracked_wallets
             /\ FillSizeUsd(TheFill(obs.event)) >= GetUserThreshold(user_settings, chat_id))
            => Cardinality(EnqueuedFor(chat_id)) = 1

\* C3 (as stated): a Notification for an event of wallet W goes only to
\* followers that track W itself.
C3_ExactMatchOnly ==
    obs.kind = "event" =>
        \A i \in 1..Len(obs.enqueued) :
            <<obs.enqueued[i].chat_id, obs.enqueued[i].wallet>> \in tracked_wallets

\* C3 (amended): a Notification for an event of wallet W goes to followers
\* that track W itself, or, when nobody tracks W itself and W has at least
\* PREFIX_MIN_LEN characters, to followers that track an address matching
\* the LIKE pattern "W%" (an address starting with W when W holds no
\* wildcard).
C3_ExactOrPrefixMatch ==
    obs.kind = "event" =>
        \A i \in 1..Len(obs.enqueued) :
            LET n == obs.enqueued[i]
            IN  \/ <<n.chat_id, n.wallet>> \in tracked_wallets
                \/ /\ \A row \in tracked_wallets : row[2] # n.wallet
                   /\ Len(n.wallet) >= PREFIX_MIN_LEN
                   /\ \E row \in tracked_wallets :
                         /\ row[1] = n.chat_id
                         /\ Like(row[2], n.wallet \o <<Wildcard.run>>)
                         /\ (\A k \in 1..Len(n.wallet) :
                                n.wallet[k] \notin {Wildcard.one, Wildcard.run})
                              => StartsWith(row[2], n.wallet)

\* C3 witness: 101 tracks only Addr2 and is notified of an event whose
\* wallet is the first ten characters of it.
C3_Witness ==
    /\ obs.kind = "event"
    /\ tracked_wallets = {<<101, Addr2>>}
    /\ Len(obs.enqueued) = 1
    /\ obs.enqueued[1].chat_id = 101
    /\ obs.enqueued[1].wallet = Addr1Short

\* A tick that read the wallet universe / that reached the health check.
TickRead == obs.kind = "tick" /\ obs.universe_read
TickProbed == obs.kind = "tick" /\ obs.path \notin {"exc_fatal", "exc_retry"}

NewWallets == obs.universe \ obs.start.subs
RemovedWallets == obs.start.subs \ obs.universe

\* The requests the rate limiter still allows at the head of the tick.
BudgetAtStart == RateBudget - ResetIfNewMinute(obs.start.rl).current_requests

\* C4 (as stated): when the limiter has budget for all new wallets, every
\* wallet of the universe that was not subscribed at the start of a tick is
\* in subscribed_wallets when the tick ends.
C4_NewSubscribedGivenBudgetForNew ==
    (TickRead /\ BudgetAtStart >= Cardinality(NewWallets)) =>
        NewWallets \subseteq subscribed_wallets

\* C4 (amended): the same, when the budget also covers the re-subscription
\* of the whole universe in a tick that replaces the session (the swap
\* clears subscribed_wallets and re-subscribes under the same limiter).
C4_NewSubscribedGivenBudget ==
    (/\ TickRead
     /\ BudgetAtStart >= Cardinality(NewWallets)
                         + (IF obs.recreate = "new" THEN Cardinality(obs.universe) ELSE 0))
    => NewWallets \subseteq subscribed_wallets

\* C4 witness: a tick that subscribes a new wallet, replaces the session and
\* has budget left to subscribe the wallet again.
C4_Witness ==
    /\ TickRead
    /\ NewWallets # {}
    /\ obs.recreate = "new"
    /\ BudgetAtStart >= Cardinality(NewWallets) + Cardinality(obs.universe)
    /\ NewWallets \subseteq subscribed_wallets

\* C5: a wallet that is subscribed at the start of a tick and absent from
\* the universe the tick read has been handed to _safe_unsubscribe and is
\* not in subscribed_wallets when the tick ends.
C5_RemovedDiscarded ==
    TickRead =>
        \A wallet \in RemovedWallets :
            wallet \in obs.unsub_calls /\ wallet \notin subscribed_wallets

\* C5 witness: a removed wallet is discarded although the session still
\* holds its topic (the unsubscribe did not go through).
C5_Witness ==
    /\ TickRead
    /\ obs.recreate = "not_called"
    /\ \E wallet \in RemovedWallets :
          /\ wallet \in obs.unsub_calls
          /\ wallet \notin subscribed_wallets
          /\ wallet \in ws.topics

\* C6: at the end of every tick subscribed_wallets is a subset of the topics
\* the current session holds.
C6_SubscribedWithinTopics ==
    obs.kind = "tick" => subscribed_wallets \subseteq ws.topics

\* C7 (as stated): a tick that finds the session not ready or not alive
\* calls _recreate_ws in that same iteration.
C7_DownAlwaysRecreates ==
    (TickProbed /\ ~WsConnected(obs.start.ws)) => obs.recreate # "not_called"

\* C7 (amended): a tick that finds the session not ready or not alive calls
\* _recreate_ws in that same iteration whatever the idle time, unless the
\* iteration brings retry_count to MAX_RECONNECT_ATTEMPTS: then it resets
\* the counter and pauses RECONNECT_MAX_DELAY_SEC without a new session.
C7_DownRecreatesOrCoolsDown ==
    (TickProbed /\ ~WsConnected(obs.start.ws)) =>
        IF obs.start.retry + 1 >= MAX_RECONNECT_ATTEMPTS
        THEN /\ obs.recreate = "not_called"
             /\ obs.path = "down_cooldown"
             /\ retry_count = 0
             /\ obs.delay = RECONNECT_MAX_DELAY_SEC
        ELSE obs.recreate # "not_called"

\* C7 witness: the session is down although an event arrived just now
\* (idle time 0), and the tick calls _recreate_ws.
C7_Witness ==
    /\ TickProbed
    /\ ~WsConnected(obs.start.ws)
    /\ obs.start.conn.connected
    /\ obs.start.conn.heartbeat_age = 0
    /\ obs.recreate = "new"

\* C8: failed reconnects never stop the worker: its loop ends only on
\* shutdown or when the loop-exception budget is used up (or it never
\* starts because the first session could not be created).
C8_ReconnectFailuresNeverStop ==
    exit_cause \in {"none", "shutdown", "loop_exceptions", "init_failed"}

\* C9: a tick whose body raises increments retry_count; when the count
\* reaches max_retries the worker leaves its loop for good (no tick is
\* enabled), below it the worker pauses min(30 * count, 300) seconds and
\* stays in the loop.
C9_ExceptionBudget ==
    (obs.kind = "tick" /\ obs.path \in {"exc_fatal", "exc_retry"}) =>
        /\ obs.retry = obs.start.retry + 1
        /\ obs.retry >= max_retries =>
              /\ pc = "exited" /\ exit_cause = "loop_exceptions"
              /\ obs.path = "exc_fatal"
        /\ obs.retry < max_retries =>
              /\ pc = "running" /\ retry_count = obs.retry
              /\ obs.delay = Min(30 * obs.retry, 300) /\ obs.delay > 0

\* C9 witness: the fifth counted failure is an exception: the worker has
\* left its loop.
C9_Witness ==
    /\ obs.kind = "tick"
    /\ obs.path = "exc_fatal"
    /\ obs.start.retry = max_retries - 1
    /\ pc = "exited"

\* The retry counts for which the doubling has not reached the cap.
BeforeCap(k) == RECONNECT_BASE_DELAY_SEC * (2 ^ k) < RECONNECT_MAX_DELAY_SEC

\* C10: for retry count k the delay is min(base * 2^min(k,5), max_delay)
\* and the pause is the delay plus at most 30% of it; up to the cap a pause
\* for k never exceeds the delay (hence any pause) for k + 1; before the
\* cap the pause lies in [base * 2^k, 1.3 * base * 2^k] (tenths of a second).
C10_BackoffBounds ==
    obs.kind = "sleep" =>
        /\ obs.delay = IF BeforeCap(obs.k) THEN RECONNECT_BASE_DELAY_SEC * (2 ^ obs.k)
                       ELSE RECONNECT_MAX_DELAY_SEC
        /\ 10 * obs.delay <= obs.sleep /\ obs.sleep <= 13 * obs.delay
        /\ obs.delay <= ReconnectDelay(obs.k + 1)
        /\ BeforeCap(obs.k) =>
              /\ 10 * RECONNECT_BASE_DELAY_SEC * (2 ^ obs.k) <= obs.sleep
              /\ obs.sleep <= 13 * RECONNECT_BASE_DELAY_SEC * (2 ^ obs.k)
              /\ obs.sleep <= 10 * ReconnectDelay(obs.k + 1)

\* C10 witness: the fourth retry pauses 20.8 s, the largest pause before
\* the cap.
C10_Witness ==
    /\ obs.kind = "sleep"
    /\ obs.k = 4
    /\ BeforeCap(obs.k)
    /\ obs.delay = 16
    /\ obs.sleep = 208

\* C11: the ws.subscribe calls issued within one minute bucket, in normal
\* ticks and in the re-subscription after a reconnect, never exceed the
\* rate limiter's per-minute budget.  (A tick takes no model time: all its
\* calls fall into one bucket.)
C11_SubscribeCallsWithinBudget ==
    obs.kind = "tick" => obs.sent <= RateBudget

\* The limiter's own count stays within the budget: it counts one request
\* per wallet handed to _safe_subscribe.
C11_CountedRequestsWithinBudget ==
    /\ rate_limiter.current_requests <= RateBudget
    /\ obs.kind = "tick" =>
          Len(obs.sub_calls) <= RateBudget - ResetIfNewMinute(obs.start.rl).current_requests

\* The queue capacity of the specification's scenario D.
ScenarioCapacity == 1

\* C12: the notification queue is bounded: with capacity 1 it never holds
\* more than one Notification (a put on the full queue is dropped).
C12_QueueWithinCapacity ==
    Len(notification_queue.items) <= ScenarioCapacity

\* C13: on_user_event makes no network call, whatever the event holds.
C13_NoNetworkCall ==
    obs.kind = "event" => obs.network_calls = 0

\* C14: the queue is consumed first-in first-out and each Notification
\* once: a put appends behind what is queued, an iteration of the
\* dispatcher removes exactly the oldest Notification, makes at most one
\* send attempt for it, ends it as delivered or dropped, and puts nothing
\* back.
C14_FifoConsumedOnce ==
    /\ obs.kind = "event" =>
          notification_queue.items =
             obs.queue_before \o [i \in 1..Len(obs.enqueued) |-> Queued(obs.enqueued[i])]
    /\ obs.kind = "dispatch" =>
          /\ obs.taken = Head(obs.before)
          /\ notification_queue.items = Tail(obs.before)
          /\ obs.attempts <= 1
          /\ obs.fate \in {"delivered", "dropped"}
          /\ obs.fate = "delivered" <=> obs.behaviour = "sent"

\* C14 witness: two different Notifications are queued; the dispatcher
\* takes the older one, its send fails, and only the newer one is left.
C14_Witness ==
    /\ obs.kind = "dispatch"
    /\ Len(obs.before) = 2
    /\ obs.before[1] # obs.before[2]
    /\ obs.taken = obs.before[1]
    /\ obs.behaviour = "telegram_error"
    /\ obs.attempts = 1
    /\ notification_queue.items = <<obs.before[2]>>

\* C15: no single notification stops notification_sender: whatever
\* handling it meets, the task is still running afterwards, and after an
\* exception caught at the loop boundary it has paused SENDER_PAUSE_SEC.
C15_SenderKeepsRunning ==
    /\ sender # "stopped"
    /\ obs.kind = "dispatch" =>
          /\ sender = "running"
          /\ obs.behaviour \in {"format_raises", "send_raises"} =>
                obs.pause = SENDER_PAUSE_SEC
          /\ obs.behaviour \in {"sent", "telegram_error"} => obs.pause = 0

\* C15 witness: the formatter raised on the first of two Notifications;
\* the task is running and the second one is still to be handled.
C15_Witness ==
    /\ obs.kind = "dispatch"
    /\ obs.behaviour = "format_raises"
    /\ obs.attempts = 0
    /\ sender = "running"
    /\ Len(notification_queue.items) = 1

\* C16: once the shutdown flag is set and the session was closed, the
\* worker creates no new session: an iteration that ends while the flag is
\* set has not obtained a new session from _recreate_ws, whatever the
\* interleaving of the stop call with the iteration.
C16_NoSessionAfterShutdown ==
    (obs.kind = "tick" /\ shutdown_event) => obs.recreate # "new"

\* C18: at most one session created by the reconciler is live: whenever
\* the worker has obtained a new session, in an iteration or at its start,
\* the session it held before is not open any more.
C18_PreviousClosedBeforeNew ==
    (obs.kind \in {"tick", "init"} /\ obs.recreate = "new") => ~obs.leak

\* C17: once the shutdown flag is set, a worker that is starting, at the
\* loop head or inside an iteration eventually leaves its loop, under fair
\* scheduling of the worker thread; and stop_monitoring never waits for the
\* worker to get anywhere: it can run to its end whatever the worker is doing.
C17_WorkerLeavesLoop ==
    /\ []((Quiet /\ ~shutdown_event) => ENABLED StopMonitoring)
    /\ (shutdown_event /\ pc \in {"init", "running", "tick"}) ~> (pc = "exited")

\* C17 witness: the flag is set, and the worker has left its loop at the
\* loop-head test.
C17_Witness ==
    /\ shutdown_event
    /\ pc = "exited"
    /\ exit_cause = "shutdown"

\* The trade threshold of a follower: the stored one, the global default
\* when the follower has no settings row.
ExpectedTradeThreshold(settings, chat_id) ==
    IF chat_id \in DOMAIN settings THEN settings[chat_id].threshold
    ELSE DEFAULT_TRADE_THRESHOLD_USD

\* The order threshold of a follower: the stored order threshold when it is
\* set and positive, otherwise the stored trade threshold when positive,
\* otherwise the global default.
ExpectedOrderThreshold(settings, chat_id) ==
    LET has_row == chat_id \in DOMAIN settings
        order_set == has_row /\ settings[chat_id].order_threshold # Null
                             /\ settings[chat_id].order_threshold > 0
        trade_set == has_row /\ settings[chat_id].threshold > 0
    IN  CASE order_set -> settings[chat_id].order_threshold
          [] ~order_set /\ trade_set -> settings[chat_id].threshold
          [] OTHER -> DEFAULT_TRADE_THRESHOLD_USD

\* C19: the threshold looked up for orders is the stored order threshold
\* when set and > 0, otherwise the stored trade threshold when > 0,
\* otherwise the global default (also without a settings row); the one
\* looked up for fills is the stored trade threshold or the default; and an
\* event passes the filter for a follower exactly when its notional reaches
\* the threshold of its kind.
C19_ThresholdSelection ==
    /\ obs.kind = "threshold" =>
          /\ obs.order = ExpectedOrderThreshold(obs.settings, obs.chat_id)
          /\ obs.trade = ExpectedTradeThreshold(obs.settings, obs.chat_id)
    /\ (obs.kind = "event" /\ <<101, Addr1>> \in tracked_wallets) =>
          LET fill == obs.event.fills # << >>
              size_usd == IF fill THEN FillSizeUsd(obs.event.fills[1])
                          ELSE IF obs.event.type = "orderUpdate"
                          THEN OrderSizeUsd(obs.event.data.details)
                          ELSE OrderSizeUsd(obs.event.orderUpdates[1].details)
              expected == IF fill THEN ExpectedTradeThreshold(user_settings, 101)
                          ELSE ExpectedOrderThreshold(user_settings, 101)
          IN  /\ Len(obs.passed) = (IF size_usd >= expected THEN 1 ELSE 0)
              /\ \A i \in 1..Len(obs.passed) :
                    /\ obs.passed[i].chat_id = 101
                    /\ obs.passed[i].kind = (IF fill THEN "fill" ELSE "order")

\* C19 witness: follower 101 has trade threshold 2000 and order threshold
\* 1000; a placed order of 1500 passes the filter.
C19_Witness ==
    /\ obs.kind = "event"
    /\ <<101, Addr1>> \in tracked_wallets
    /\ 101 \in DOMAIN user_settings
    /\ user_settings[101] = [threshold |-> 2000, order_threshold |-> 1000]
    /\ obs.event.fills = << >>
    /\ Len(obs.passed) = 1
    /\ obs.passed[1].kind = "order"
    /\ obs.passed[1].size_usd = 1500

\* A fill, or an order's details, that can be read and names a wallet.
Readable(item) == item.ok /\ item.user # NoAddress /\ item.coin # "missing"

\* The message with every malformed element and every element without a
\* wallet taken out.
WellFormedPart(event) ==
    IF event.empty THEN event
    ELSE [event EXCEPT
            !.fills = SelectSeq(@, Readable),
            !.orderUpdates = SelectSeq(@, LAMBDA u : u.details.present /\ Readable(u.details)),
            !.type = IF \/ event.type = "fill" /\ ~Readable(event.data)
                        \/ event.type = "orderUpdate"
                           /\ ~(event.data.details.present /\ Readable(event.data.details))
                     THEN "none" ELSE @]

\* C20: on_user_event returns normally on every message: an exception
\* raised by a malformed element ends in one of its two handlers; what the
\* call passes on is what the message's well-formed elements with a wallet
\* yield, so a malformed element yields nothing and does not affect the other
\* elements of its batch, an element without a wallet yields nothing, and a
\* message that is malformed as a whole leaves the queue as it was.
C20_MalformedDropped ==
    obs.kind = "event" =>
        /\ obs.passed \in EventOutcomes(tracked_wallets, user_settings,
                                        WellFormedPart(obs.event))
        /\ LET rest == WellFormedPart(obs.event) IN
           (~obs.event.empty /\ rest.fills = << >> /\ rest.orderUpdates = << >>
               /\ rest.type = "none") =>
              (obs.passed = << >> /\ notification_queue.items = obs.queue_before)
        /\ (obs.caught_by.item \/ obs.caught_by.outer) =>
              WellFormedPart(obs.event) # obs.event

\* C20 witness: a batch whose first fill is malformed and whose second is a
\* fill of a tracked wallet: the handler around the element caught the
\* exception and the second fill was passed on.
C20_Witness ==
    /\ obs.kind = "event"
    /\ ~obs.event.empty
    /\ Len(obs.event.fills) = 2
    /\ ~obs.event.fills[1].ok
    /\ obs.caught_by.item
    /\ Len(obs.passed) = 1
    /\ obs.passed[1].wallet = obs.event.fills[2].user
    /\ Len(obs.enqueued) = 1

\* C21: the budget of loop exceptions and the reconnect retry counter are
\* independent: an iteration that ends in the exception handler leaves the
\* reconnect retry count, which sets the next backoff and the cool-down, as
\* it was.
C21_ExceptionsLeaveRetryCount ==
    (obs.kind = "tick" /\ obs.path \in {"exc_retry", "exc_fatal"}) =>
        obs.retry = obs.start.retry

\* C22: an iteration that completes in the steady branch without raising
\* resets the count of loop exceptions: after it the count is 0.
C22_SteadyResetsExceptionCount ==
    (obs.kind = "tick" /\ obs.path \in {"steady", "warn"}) => retry_count = 0

\* C23: when a reconnect attempt yields a new session, at the end of that
\* iteration the old session is closed, the retry counter is 0, and
\* subscribed_wallets holds only wallets of the universe snapshot, all of
\* them subscribed on the new session: everything the new session accepted
\* is in it and nothing of the old session is carried over.
C23_SwapStartsClean ==
    (obs.kind = "tick" /\ obs.recreate = "new") =>
        /\ ~obs.leak
        /\ retry_count = 0
        /\ subscribed_wallets \subseteq obs.universe
        /\ ws.topics \subseteq subscribed_wallets
        /\ Cardinality(subscribed_wallets) <= Len(obs.sub_calls)

\* The worker is in its loop and its last iteration ended in the steady
\* branch: the session is healthy, nothing raised, no reconnect.
StaysSteady ==
    /\ pc \in {"running", "tick"}
    /\ obs.kind = "tick" => obs.path \in {"steady", "warn"}

\* C24: if from some point on the wallet universe does not change and the
\* worker's iterations all end in the steady branch, then from some point
\* on every wallet of the universe is in subscribed_wallets: a wallet that
\* was skipped because the limiter's budget was used up is subscribed in a
\* later iteration, after the minute has changed.
C24_EventuallySubscribed ==
    (<>[][UNCHANGED tracked_wallets]_vars /\ <>[]StaysSteady)
        => <>[](Universe \subseteq subscribed_wallets)

\* C24 witness: an iteration that started with the budget used up in an
\* earlier minute and a wallet of the universe not subscribed has subscribed
\* it.
C24_Witness ==
    /\ obs.kind = "tick"
    /\ obs.path = "steady"
    /\ obs.start.rl.current_requests = RateBudget
    /\ obs.start.rl.minute_age > 0
    /\ obs.universe \ obs.start.subs # {}
    /\ obs.universe \subseteq subscribed_wallets

\* C25: a reconnect attempt whose new session has not become healthy within
\* the connect timeout counts as failed: at the end of that iteration the
\* retry counter is not 0 and a backoff delay precedes the next attempt.
C25_UnhealthySessionCountsAsFailure ==
    (obs.kind = "tick" /\ obs.recreate = "new" /\ ~WsConnected(ws)) =>
        (retry_count > 0 /\ obs.delay > 0)

\* C26: when the construction of the first session fails, the worker does
\* not end: it is never left for good because of that failure.
C26_InitFailureIsRetried ==
    ~(pc = "exited" /\ exit_cause = "init_failed")

\* C27: unsubscribe calls are gated by the rate limiter like subscribe
\* calls: the subscribe and unsubscribe calls of an iteration that makes no
\* reconnect together stay within the budget the limiter had left at its
\* start, and each of them is counted.
C27_UnsubscribeWithinBudget ==
    (obs.kind = "tick" /\ obs.recreate = "not_called" /\ obs.unsub_calls # {}) =>
        /\ Len(obs.sub_calls) + Cardinality(obs.unsub_calls)
              <= RateBudget - ResetIfNewMinute(obs.start.rl).current_requests
        /\ rate_limiter.current_requests
              = ResetIfNewMinute(obs.start.rl).current_requests
                + Len(obs.sub_calls) + Cardinality(obs.unsub_calls)

\* The subscribe calls of the recorded iteration that went to the session
\* the iteration started with, and those that went to its replacement.
CallsOnOld ==
    SubSeq(obs.sub_calls, 1,
           IF obs.swap_at = Null THEN Len(obs.sub_calls) ELSE obs.swap_at)

CallsOnNew ==
    IF obs.swap_at = Null THEN << >>
    ELSE SubSeq(obs.sub_calls, obs.swap_at + 1, Len(obs.sub_calls))

NoDuplicates(seq) == \A i, j \in 1..Len(seq) : seq[i] = seq[j] => i = j

StartedHealthy ==
    /\ obs.kind = "tick"
    /\ obs.universe_read
    /\ obs.path \notin {"exc_retry", "exc_fatal"}
    /\ WsConnected(obs.start.ws) /\ obs.start.conn.connected
    /\ obs.start.conn.heartbeat_age <= HEARTBEAT_RECONNECT_SEC

\* In the recorded iteration a ws.subscribe raised / a ws.unsubscribe was
\* missing or raised: the session does not carry (still carries) the topic.
SubscribeFailed == \E i \in 1..Len(CallsOnOld) : CallsOnOld[i] \notin ws.topics
UnsubscribeFailed == \E w \in obs.unsub_calls : w \in ws.topics

\* C29: an iteration on a healthy session in which a subscribe raised or an
\* unsubscribe was missing or raised goes on as if the call had succeeded:
\* it ends in the steady branch and does not leave the loop, the retry
\* counter and the session (state, health) are as at its start, no new
\* session is requested, the remaining wallets are still handled and the
\* failed wallet is booked like a successful one.
C29_SubscriptionErrorsAreSwallowed ==
    (StartedHealthy /\ (SubscribeFailed \/ UnsubscribeFailed)) =>
        /\ obs.path \in {"steady", "warn"}
        /\ obs.exit = "no" /\ pc = "running"
        /\ retry_count = obs.start.retry
        /\ obs.recreate = "not_called" /\ obs.delay = 0
        /\ ws.state = obs.start.ws.state /\ ws.health = obs.start.ws.health
        /\ Len(obs.sub_calls)
              = Min(Cardinality(obs.universe \ obs.start.subs),
                    RateBudget - ResetIfNewMinute(obs.start.rl).current_requests)
        /\ obs.unsub_calls = obs.start.subs \ obs.universe
        /\ subscribed_wallets
              = (obs.start.subs \cup {obs.sub_calls[i] : i \in 1..Len(obs.sub_calls)})
                   \ obs.unsub_calls

C29_Witness ==
    /\ StartedHealthy
    /\ SubscribeFailed
    /\ UnsubscribeFailed
    /\ obs.path = "steady"

\* The recorded iteration found the session ready and alive, the status
\* connected, and the idle time above HEARTBEAT_WARN_SEC but not above
\* HEARTBEAT_RECONNECT_SEC.
QuietButAlive ==
    /\ obs.kind = "tick"
    /\ obs.universe_read
    /\ obs.path \notin {"exc_retry", "exc_fatal"}
    /\ WsConnected(obs.start.ws) /\ obs.start.conn.connected
    /\ obs.start.conn.heartbeat_age > HEARTBEAT_WARN_SEC
    /\ obs.start.conn.heartbeat_age <= HEARTBEAT_RECONNECT_SEC

C31_InitProceedsOnTimeout ==
    (obs.kind = "init" /\ ~obs.raised) =>
        /\ obs.recreate = "new"
        /\ obs.wait.polls <= max_wait * POLLS_PER_SEC
        /\ obs.wait.wait_time <= max_wait * POLLS_PER_SEC
        /\ obs.wait.established <=> obs.ready_from < max_wait * POLLS_PER_SEC
        /\ obs.wait.established =>
              /\ obs.wait.wait_time = obs.ready_from
              /\ obs.wait.polls = obs.ready_from + 1
              /\ connection_status.connected
              /\ WsConnected(ws)
        /\ ~obs.wait.established =>
              /\ obs.wait.polls = max_wait * POLLS_PER_SEC
              /\ obs.wait.wait_time = max_wait * POLLS_PER_SEC
              /\ ~connection_status.connected
        /\ ws.state = "open"
        /\ pc = "running" /\ exit_cause # "init_failed"

C31_Witness ==
    /\ obs.kind = "init" /\ ~obs.raised
    /\ ~obs.wait.established
    /\ obs.wait.polls = max_wait * POLLS_PER_SEC
    /\ ws.state = "open" /\ ~WsConnected(ws)
    /\ ~connection_status.connected
    /\ pc = "running"

\* The message carries one fill, or one order update, in both shapes.
BothShapes(event) ==
    /\ ~event.empty
    /\ event.channel \in {"userEvents", "user"}
    /\ \/ /\ Len(event.fills) = 1 /\ event.orderUpdates = << >>
          /\ event.type = "fill" /\ event.data = event.fills[1]
       \/ /\ event.fills = << >> /\ Len(event.orderUpdates) = 1
          /\ event.type = "orderUpdate" /\ event.data = event.orderUpdates[1]

\* The message carries one fill, or one order update, in one shape.
OneShape(event) ==
    /\ ~event.empty
    /\ event.channel \in {"userEvents", "user"}
    /\ Len(event.fills) + Len(event.orderUpdates)
          + (IF event.type = "none" THEN 0 ELSE 1) = 1

\* The Notifications of a shape the recorded call enqueued for a follower.
ShapeCount(chat_id, shape) ==
    Cardinality({i \in 1..Len(obs.enqueued) :
                    obs.enqueued[i].chat_id = chat_id /\ obs.enqueued[i].shape = shape})

\* The follower tracks the wallet of a message in both shapes under exactly
\* that address, and the notional reaches the follower's threshold for the
\* kind of the message.
FollowsAboveThreshold(chat_id, event) ==
    IF event.type = "fill"
    THEN /\ <<chat_id, LowerStr(event.data.user)>> \in tracked_wallets
         /\ FillSizeUsd(event.data) >= GetUserThreshold(user_settings, chat_id)
    ELSE /\ <<chat_id, LowerStr(event.data.details.user)>> \in tracked_wallets
         /\ OrderSizeUsd(event.data.details)
               >= GetUserOrderThreshold(user_settings, chat_id)

\* C32: a message that carries the same fill or order update in the batched
\* and in the typed shape is handled in both: every follower gets as many
\* Notifications for the typed shape as for the batched one, and a follower
\* who tracks the wallet and whose threshold is reached gets one of each,
\* two for the message; a message with one element in one shape yields
\* Notifications of that shape only.
C32_BothShapesBothProcessed ==
    (obs.kind = "event" /\ notification_queue.initialised) =>
        \A chat_id \in ChatIds :
            /\ BothShapes(obs.event) =>
                  /\ ShapeCount(chat_id, "batch") = ShapeCount(chat_id, "typed")
                  /\ ShapeCount(chat_id, "batch") <= 1
                  /\ FollowsAboveThreshold(chat_id, obs.event) =>
                        ShapeCount(chat_id, "batch") + ShapeCount(chat_id, "typed") = 2
            /\ OneShape(obs.event) =>
                  /\ ShapeCount(chat_id, IF obs.event.type = "none" THEN "typed" ELSE "batch") = 0
                  /\ ShapeCount(chat_id, "batch") + ShapeCount(chat_id, "typed")
                        <= Cardinality({row \in tracked_wallets : row[1] = chat_id})

C32_Witness ==
    /\ obs.kind = "event" /\ notification_queue.initialised
    /\ BothShapes(obs.event)
    /\ obs.event.type = "orderUpdate"
    /\ FollowsAboveThreshold(101, obs.event)
    /\ Len(obs.enqueued) = 2
    /\ obs.enqueued[1].shape = "batch" /\ obs.enqueued[2].shape = "typed"
    /\ obs.enqueued[1].chat_id = 101 /\ obs.enqueued[2].chat_id = 101

\* ------------------------------------------------------------------------
\* on_user_event when a database lookup raises (sqlite3.Error from
\* get_users_tracking_wallet, get_user_threshold or
\* get_user_order_threshold).  The lookups of one element are numbered in
\* the order of the calls: 1 is get_users_tracking_wallet, 1 + k the
\* threshold of the k-th chat_id returned.  The followers handled before the
\* failing call have been notified already; the exception ends the element
\* (handler around a batch element) or the callback (outer handler).
\* ------------------------------------------------------------------------
FillNotificationsUntil(rows, settings, wallet, size_usd, shape, fail_at) ==
    FillNotifications(SubSeq(rows, 1, fail_at - 2), settings, wallet, size_usd, shape)

OrderNotificationsUntil(rows, settings, wallet, size_usd, action, shape, fail_at) ==
    OrderNotifications(SubSeq(rows, 1, fail_at - 2), settings, wallet, size_usd, action, shape)

\* The enumerations of the tracking rows in which a lookup number fail_at
\* exists.
RowsReaching(tracked, wallet, fail_at) ==
    {rows \in Orderings(GetUsersTrackingWallet(tracked, wallet)) : fail_at <= Len(rows) + 1}

\* The wallet an element is looked up under.
FillWallet(evt, fill) ==
    LowerStr(IF fill.user # NoAddress THEN fill.user ELSE evt.user)

OrderWallet(evt, update) ==
    LowerStr(IF update.details.user # NoAddress THEN update.details.user
             ELSE IF update.user # NoAddress THEN update.user ELSE evt.user)

\* An element whose handling reaches the database.
FillReachesLookup(evt, fill) == fill.ok /\ FillWallet(evt, fill) # NoAddress

OrderReachesLookup(evt, update) ==
    /\ update.key # "none" /\ update.details.present /\ update.details.ok
    /\ OrderWallet(evt, update) # NoAddress

\* The batched part of a message with one batched element, when lookup
\* fail_at of that element raises.
FailingBatchOutcomes(tracked, settings, evt, fail_at) ==
    IF evt.fills # << >>
    THEN LET fill == evt.fills[1] IN
         {FillNotificationsUntil(rows, settings, FillWallet(evt, fill),
                                 FillSizeUsd(fill), "batch", fail_at) :
             rows \in RowsReaching(tracked, FillWallet(evt, fill), fail_at)}
    ELSE LET update == evt.orderUpdates[1] IN
         {OrderNotificationsUntil(rows, settings, OrderWallet(evt, update),
                                  OrderSizeUsd(update.details),
                                  OrderAction(update.key), "batch", fail_at) :
             rows \in RowsReaching(tracked, OrderWallet(evt, update), fail_at)}

\* The typed part of a message, when its lookup fail_at raises.
FailingTypedOutcomes(tracked, settings, evt, fail_at) ==
    IF evt.type = "fill"
    THEN {FillNotificationsUntil(rows, settings, LowerStr(evt.data.user),
                                 FillSizeUsd(evt.data), "typed", fail_at) :
             rows \in RowsReaching(tracked, LowerStr(evt.data.user), fail_at)}
    ELSE {OrderNotificationsUntil(rows, settings, OrderWallet(evt, evt.data),
                                  OrderSizeUsd(evt.data.details),
                                  OrderAction(evt.data.key), "typed", fail_at) :
             rows \in RowsReaching(tracked, OrderWallet(evt, evt.data), fail_at)}

\* The part of the message ("batch", "typed") has one element that reaches
\* the database.
PartReachesLookup(event, part) ==
    /\ ~event.empty
    /\ event.channel \in {"userEvents", "user"}
    /\ IF part = "batch"
       THEN /\ Len(event.fills) + Len(event.orderUpdates) = 1
            /\ IF event.fills # << >>
               THEN FillReachesLookup(event, event.fills[1])
               ELSE OrderReachesLookup(event, event.orderUpdates[1])
       ELSE CASE event.type = "fill" ->
                    event.data.ok /\ event.data.coin # "missing"
              [] event.type = "orderUpdate" -> OrderReachesLookup(event, event.data)
              [] OTHER -> FALSE

\* on_user_event(event) when lookup fail_at of the element in `part` raises:
\* a failure in the batched element is caught by the handler around it and
\* the typed part still runs; a failure in the typed part is caught by the
\* outer handler, after the batched part has run.
LookupFailureOutcomes(tracked, settings, event, part, fail_at) ==
    IF part = "batch"
    THEN Concat(FailingBatchOutcomes(tracked, settings, event, fail_at),
                TypedOutcomes(tracked, settings, event))
    ELSE Concat(Concat(BatchFills(tracked, settings, event, 1),
                       BatchOrders(tracked, settings, event, 1)),
                FailingTypedOutcomes(tracked, settings, event, fail_at))

LookupCalls == 1..3

\* on_user_event, called by an open session's transport thread, with a
\* database lookup that raises.
OnUserEventLookupFails(event) ==
    /\ Quiet
    /\ ws.state = "open"
    /\ connection_status' = [connected |-> TRUE, heartbeat_age |-> 0]
    /\ \E part \in {"batch", "typed"}, fail_at \in LookupCalls :
          /\ PartReachesLookup(event, part)
          /\ \E passed \in LookupFailureOutcomes(tracked_wallets, user_settings,
                                                 event, part, fail_at) :
                /\ Len(notification_queue.items) + Len(passed) <= MaxQueue
                /\ notification_queue' = PutAll(notification_queue, passed)
                /\ obs' = [kind |-> "lookup_failed", event |-> event,
                           part |-> part, fail_at |-> fail_at,
                           caught_by |-> IF part = "batch" THEN "item" ELSE "outer",
                           queue_before |-> notification_queue.items,
                           enqueued |-> IF notification_queue.initialised THEN passed
                                        ELSE << >>]
    /\ UNCHANGED <<pc, exit_cause, shutdown_event, tracked_wallets, user_settings,
                   subscribed_wallets, rate_limiter, ws, retry_count, sender,
                   token_cache,
                   health_access, threads, poller>>

\* One fill or one placed order of Addr1, in the batched shape, in the typed
\* shape or in both.
LookupEvents ==
    {Event("userEvents", <<Item(Addr1, 300, sz, TRUE)>>, << >>, "none", NoItem) : sz \in Sizes}
    \cup {Event("user", << >>, << >>, "fill", Item(Addr1, 300, sz, TRUE)) : sz \in Sizes}
    \cup {Event("userEvents", << >>, <<Wrapper("placed", Addr1, 300, 400, TRUE, TRUE)>>,
                "none", NoItem)}
    \cup {Event("user", << >>, << >>, "orderUpdate",
                Wrapper("placed", Addr1, 300, 400, TRUE, TRUE))}
    \cup {Event("userEvents", <<f>>, << >>, "fill", f) : f \in {Item(Addr1, 300, 400, TRUE)}}

NextLookup ==
    \/ Observed
    \/ MainStartsWorker
    \/ WorkerInit
    \/ PostInit
    \/ NotificationSender
    \/ \E event \in LookupEvents : OnUserEvent(event)
    \/ \E event \in LookupEvents : OnUserEventLookupFails(event)
    \/ \E chat_id \in ChatIds : AddWallet(chat_id, Addr1)
    \/ \E chat_id \in ChatIds : RemoveWallet(chat_id, Addr1)
    \/ \E threshold \in TradeThresholds : SetThreshold(101, threshold)

\* The ingestion path with a threshold store whose reads can fail.
SpecLookup == Init /\ [][NextLookup]_vars

\* C33: a call of on_user_event in which a lookup of the followers or of a
\* follower's threshold raised enqueues no Notification for the message.
C33_LookupFailureEnqueuesNothing ==
    obs.kind = "lookup_failed" => obs.enqueued = << >>

\* ------------------------------------------------------------------------
\* connection_status, one dictionary access at a time.  on_user_event and
\* on_connection_status_change run on the transport's thread, the status
\* check and _recreate_ws on the worker's; the dictionary has no lock.
\* ------------------------------------------------------------------------
\* The most writes of connection_status by the transport's callbacks.
MaxWrites == 3

\* The pair the dictionary holds is added to what the check in progress
\* could have seen.
SeenAlso(access, heartbeat, connected) ==
    IF access.reader = "read_heartbeat"
    THEN access.seen \cup {<<heartbeat, connected>>} ELSE access.seen

\* on_user_event, line 109: connection_status["last_heartbeat"] = time.time()
EventWritesHeartbeat ==
    /\ Quiet
    /\ ws.state = "open"
    /\ health_access.callback = "idle"
    /\ health_access.writes < MaxWrites
    /\ connection_status' = [connection_status EXCEPT !.heartbeat_age = 0]
    /\ health_access' =
          [health_access EXCEPT
              !.hb = health_access.writes + 1,
              !.writes = @ + 1,
              !.callback = "wrote_heartbeat",
              !.seen = SeenAlso(health_access, health_access.writes + 1,
                                connection_status.connected)]
    /\ UNCHANGED <<pc, exit_cause, shutdown_event, tracked_wallets, user_settings,
                   subscribed_wallets, rate_limiter, ws, retry_count,
                   notification_queue, token_cache, sender, threads, poller, obs>>

\* on_user_event, line 110: connection_status["connected"] = True.  The rest
\* of the callback does not touch connection_status.
EventWritesConnected ==
    /\ Quiet
    /\ health_access.callback = "wrote_heartbeat"
    /\ connection_status' = [connection_status EXCEPT !.connected = TRUE]
    /\ health_access' =
          [health_access EXCEPT
              !.callback = "idle",
              !.seen = SeenAlso(health_access, health_access.hb, TRUE)]
    /\ UNCHANGED <<pc, exit_cause, shutdown_event, tracked_wallets, user_settings,
                   subscribed_wallets, rate_limiter, ws, retry_count,
                   notification_queue, token_cache, sender, threads, poller, obs>>

\* on_connection_status_change(connected), line 353, between two callbacks
\* of the transport's thread.
StatusChangeWrites ==
    /\ Quiet
    /\ ws.state = "open"
    /\ health_access.callback = "idle"
    /\ health_access.writes < MaxWrites
    /\ \E connected \in BOOLEAN :
          /\ connection_status' = [connection_status EXCEPT !.connected = connected]
          /\ health_access' =
                [health_access EXCEPT
                    !.writes = @ + 1,
                    !.seen = SeenAlso(health_access, health_access.hb, connected)]
    /\ UNCHANGED <<pc, exit_cause, shutdown_event, tracked_wallets, user_settings,
                   subscribed_wallets, rate_limiter, ws, retry_count,
                   notification_queue, token_cache, sender, threads, poller, obs>>

\* monitor_worker, line 506: idle_sec = current_time -
\* (connection_status["last_heartbeat"] or 0)
CheckReadsHeartbeat ==
    /\ Quiet
    /\ pc = "tick"
    /\ health_access.reader = "idle"
    /\ health_access' =
          [health_access EXCEPT
              !.reader = "read_heartbeat",
              !.hb_read = health_access.hb,
              !.seen = {<<health_access.hb, connection_status.connected>>}]
    /\ UNCHANGED <<pc, exit_cause, shutdown_event, tracked_wallets, user_settings,
                   subscribed_wallets, connection_status, rate_limiter, ws,
                   retry_count, notification_queue, token_cache, sender,
                   threads, poller, obs>>

\* monitor_worker, lines 507-513: ws_connected is computed and
\* connection_status["connected"] is read; with both true and the idle time
\* computed at line 506 within HEARTBEAT_RECONNECT_SEC (silent = FALSE) the
\* iteration ends, otherwise _recreate_ws is called.
CheckReadsConnected ==
    /\ Quiet
    /\ pc = "tick"
    /\ health_access.reader = "read_heartbeat"
    /\ \E silent \in BOOLEAN :
          LET steady == WsConnected(ws) /\ connection_status.connected /\ ~silent IN
          /\ health_access' =
                [health_access EXCEPT
                    !.reader = IF steady THEN "idle" ELSE "recreate", !.seen = {}]
          /\ pc' = IF steady THEN "running" ELSE "tick"
          /\ obs' = [kind |-> "status_check",
                     heartbeat |-> health_access.hb_read,
                     connected |-> connection_status.connected,
                     seen |-> health_access.seen,
                     steady |-> steady]
    /\ UNCHANGED <<exit_cause, shutdown_event, tracked_wallets, user_settings,
                   subscribed_wallets, connection_status, rate_limiter, ws,
                   retry_count, notification_queue, token_cache, sender,
                   threads, poller>>

\* _recreate_ws on the worker's thread: the old manager is closed, the new
\* one built; line 438 (connected = True) when the wait saw it healthy, line
\* 451 (connected = False) when the wait ran out, nothing when it raised.
RecreateWritesConnected ==
    /\ Quiet
    /\ pc = "tick"
    /\ health_access.reader = "recreate"
    /\ \E close_ok \in BOOLEAN, result \in RecreateResults :
          LET rc == RecreateWs(ws, connection_status, close_ok, result, "down") IN
          /\ ws' = IF rc.ret = "new" THEN rc.new ELSE rc.old
          /\ connection_status' =
                [connection_status EXCEPT
                    !.connected = IF result = "connected" THEN TRUE
                                  ELSE IF result = "timeout" THEN FALSE ELSE @]
          /\ health_access' =
                [health_access EXCEPT
                    !.reader = IF result = "connected" THEN "recreate_wrote_connected"
                               ELSE "idle"]
          /\ pc' = IF result = "connected" THEN "tick" ELSE "running"
    /\ UNCHANGED <<exit_cause, shutdown_event, tracked_wallets, user_settings,
                   subscribed_wallets, rate_limiter, retry_count,
                   notification_queue, token_cache, sender, threads, poller, obs>>

\* _recreate_ws, line 439: connection_status["last_heartbeat"] = time.time();
\* the iteration ends.
RecreateWritesHeartbeat ==
    /\ Quiet
    /\ pc = "tick"
    /\ health_access.reader = "recreate_wrote_connected"
    /\ connection_status' = [connection_status EXCEPT !.heartbeat_age = 0]
    /\ health_access' =
          [health_access EXCEPT !.hb = MaxWrites + 1, !.reader = "idle"]
    /\ pc' = "running"
    /\ UNCHANGED <<exit_cause, shutdown_event, tracked_wallets, user_settings,
                   subscribed_wallets, rate_limiter, ws, retry_count,
                   notification_queue, token_cache, sender, threads, poller, obs>>

NextHealth ==
    \/ Observed
    \/ MainStartsWorker
    \/ WorkerInit
    \/ LoopHead
    \/ CheckReadsHeartbeat
    \/ CheckReadsConnected
    \/ RecreateWritesConnected
    \/ RecreateWritesHeartbeat
    \/ EventWritesHeartbeat
    \/ EventWritesConnected
    \/ StatusChangeWrites

\* The accesses to connection_status of the transport's thread and of the
\* worker's thread, interleaved in every way.
SpecHealth == Init /\ [][NextHealth]_vars

\* C34: the (last_heartbeat, connected) pair a status check of the worker
\* uses is a pair connection_status held at one instant of the check.
C34_StatusCheckUsesOnePair ==
    obs.kind = "status_check" => <<obs.heartbeat, obs.connected>> \in obs.seen

\* ------------------------------------------------------------------------
\* The notional on_user_event compares with the threshold, for sizes of
\* either sign.
\* ------------------------------------------------------------------------
SignedSizes == {400, 0 - 400}

SignedEvents ==
    {Event("userEvents", <<Item(Addr1, 300, sz, TRUE)>>, << >>, "none", NoItem) :
        sz \in SignedSizes}
    \cup {Event("user", << >>, << >>, "fill", Item(Addr1, 300, sz, TRUE)) : sz \in SignedSizes}
    \cup {Event("userEvents", << >>, <<Wrapper("placed", Addr1, 300, sz, TRUE, TRUE)>>,
                "none", NoItem) : sz \in SignedSizes}
    \cup {Event("user", << >>, << >>, "orderUpdate",
                Wrapper("canceled", Addr1, 300, sz, TRUE, TRUE)) : sz \in SignedSizes}

NextNotional ==
    \/ Observed
    \/ MainStartsWorker
    \/ WorkerInit
    \/ PostInit
    \/ NotificationSender
    \/ \E event \in SignedEvents : OnUserEvent(event)
    \/ AddWallet(101, Addr1)
    \/ RemoveWallet(101, Addr1)
    \/ \E threshold \in TradeThresholds : SetThreshold(101, threshold)

SpecNotional == Init /\ [][NextNotional]_vars

Abs(n) == IF n < 0 THEN 0 - n ELSE n

\* The fill, or the order's details, of a message with one element in one
\* shape, and whether it is an order.
OnlyElement(event) ==
    IF event.fills # << >> THEN event.fills[1]
    ELSE IF event.orderUpdates # << >> THEN event.orderUpdates[1].details
    ELSE IF event.type = "fill" THEN event.data
    ELSE event.data.details

IsOrderMessage(event) == event.orderUpdates # << >> \/ event.type = "orderUpdate"

\* C35: for a message with one readable fill or order of a tracked wallet, a
\* follower is notified exactly when |size| * price reaches the follower's
\* threshold for the kind of the message, so a negative size is filtered
\* like the positive one.
C35_NotionalIsAbsolute ==
    (obs.kind = "event" /\ notification_queue.initialised /\ OneShape(obs.event)
     /\ obs.event \in SignedEvents) =>
        \A chat_id \in ChatIds :
            LET element == OnlyElement(obs.event)
                threshold == IF IsOrderMessage(obs.event)
                             THEN GetUserOrderThreshold(user_settings, chat_id)
                             ELSE GetUserThreshold(user_settings, chat_id)
            IN  (/\ <<chat_id, LowerStr(element.user)>> \in tracked_wallets
                 /\ Abs(element.sz) * element.px >= threshold)
                <=> (\E i \in 1..Len(obs.enqueued) : obs.enqueued[i].chat_id = chat_id)

\* C36: a step that is set_user_threshold(chat_id, threshold) for a follower
\* with an explicitly stored order threshold leaves the value
\* get_user_order_threshold(chat_id) returns as it was.
C36_SetThresholdKeepsOrderThreshold ==
    [][\A chat_id \in ChatIds, threshold \in TradeThresholds :
          (/\ chat_id \in DOMAIN user_settings
           /\ user_settings[chat_id].order_threshold # Null
           /\ user_settings' = SetUserThreshold(user_settings, chat_id, threshold))
          => GetUserOrderThreshold(user_settings', chat_id)
                = GetUserOrderThreshold(user_settings, chat_id)]_vars

\* C37: at the end of every iteration that no exception ended,
\* subscribed_wallets is a subset of the wallets_in_db the iteration read at
\* its start, with or without a session swap and re-subscription inside the
\* iteration.
C37_SubscribedWithinSnapshot ==
    (obs.kind = "tick" /\ obs.universe_read
     /\ obs.path \notin {"exc_retry", "exc_fatal"}) =>
        subscribed_wallets \subseteq obs.universe

C37_Witness ==
    /\ obs.kind = "tick"
    /\ obs.path \in {"silence_swap", "down_swap"}
    /\ obs.start.subs \ obs.universe # {}
    /\ subscribed_wallets # {}
    /\ subscribed_wallets \subseteq obs.universe

\* ------------------------------------------------------------------------
\* start_monitoring() next to the worker of main()
\* ------------------------------------------------------------------------
\* threads.monitor_thread is the module global (0 is None, otherwise the id
\* of the thread start_monitoring() created last), threads.alive the ids of
\* the workers start_monitoring() created that have not returned, and
\* threads.callers the callers that are between the test of line 623 and
\* the assignment of line 625.  The worker main() starts is the one pc
\* follows: main() keeps it in a local variable, monitoring.monitor_thread
\* is not assigned.
MaxThreads == 2
Callers == {"caller1", "caller2"}

\* monitor_thread is None or not monitor_thread.is_alive()
NoLiveMonitorThread(th) ==
    th.monitor_thread = 0 \/ th.monitor_thread \notin th.alive

\* start_monitoring() up to its test: shutdown_event is clear; the caller
\* goes on to create a thread, or returns True ("already active").
StartMonitoringChecks(caller) ==
    /\ Quiet
    /\ ~shutdown_event
    /\ caller \notin threads.callers
    /\ IF NoLiveMonitorThread(threads)
       THEN /\ threads' = [threads EXCEPT !.callers = @ \cup {caller}]
            /\ obs' = [kind |-> "start_monitoring", caller |-> caller,
                       step |-> "creating"]
       ELSE /\ UNCHANGED threads
            /\ obs' = [kind |-> "start_monitoring", caller |-> caller,
                       step |-> "already_active"]
    /\ UNCHANGED <<pc, exit_cause, shutdown_event, tracked_wallets, user_settings,
                   subscribed_wallets, connection_status, rate_limiter, ws,
                   retry_count, sender, notification_queue, token_cache,
                   health_access, poller>>

\* monitor_thread = threading.Thread(target=monitor_worker, ...);
\* monitor_thread.start(): a new worker runs, or Thread.start() raises and
\* False is returned.
StartMonitoringStarts(caller) ==
    /\ Quiet
    /\ caller \in threads.callers
    /\ threads.started < MaxThreads
    /\ \E start_ok \in BOOLEAN :
          LET id == threads.started + 1 IN
          /\ threads' = [monitor_thread |-> id,
                         alive |-> IF start_ok THEN threads.alive \cup {id}
                                   ELSE threads.alive,
                         started |-> id,
                         callers |-> threads.callers \ {caller}]
          /\ obs' = [kind |-> "start_monitoring", caller |-> caller,
                     step |-> IF start_ok THEN "started" ELSE "start_failed"]
    /\ UNCHANGED <<pc, exit_cause, shutdown_event, tracked_wallets, user_settings,
                   subscribed_wallets, connection_status, rate_limiter, ws,
                   retry_count, sender, notification_queue, token_cache,
                   health_access, poller>>

\* A worker start_monitoring() created returns from monitor_worker (by any
\* of its exits).
ExtraWorkerExits(id) ==
    /\ Quiet
    /\ id \in threads.alive
    /\ threads' = [threads EXCEPT !.alive = @ \ {id}]
    /\ UNCHANGED <<pc, exit_cause, shutdown_event, tracked_wallets, user_settings,
                   subscribed_wallets, connection_status, rate_limiter, ws,
                   retry_count, sender, notification_queue, token_cache, obs,
                   health_access, poller>>

NextWorkers ==
    \/ Observed
    \/ MainStartsWorker
    \/ WorkerInit
    \/ LoopHead
    \/ TickDbError
    \/ \E caller \in Callers : StartMonitoringChecks(caller)
    \/ \E caller \in Callers : StartMonitoringStarts(caller)
    \/ \E id \in 1..MaxThreads : ExtraWorkerExits(id)

\* The worker of main() and start_monitoring() called from two threads.
SpecWorkers == Init /\ [][NextWorkers]_vars

\* The monitor_worker control loops that are running.
MainWorkerAlive == pc \in {"init", "running", "tick"}
WorkersAlive == (IF MainWorkerAlive THEN 1 ELSE 0) + Cardinality(threads.alive)

\* C38: at most one monitor_worker control loop runs at any time:
\* start_monitoring() starts no second worker while one is alive, be it the
\* worker main() started, and also when two threads call it at once.
C38_AtMostOneWorker == WorkersAlive <= 1

\* C39: when monitor_worker has left its loop because a retry budget was
\* used up, no session is open: the worker closed the active session before
\* it returned, so no provider event can arrive afterwards.
C39_NoOpenSessionAfterFailure ==
    (pc = "exited" /\ exit_cause \in {"reconnect_budget", "loop_exceptions"}) =>
        ws.state # "open"

\* ------------------------------------------------------------------------
\* OrderPollingMonitor: the fills cache
\* ------------------------------------------------------------------------
\* A fill is identified by (time, oid, px, sz); here a fill is its time, and
\* different fills have different times.  poller.last_fills is the cache,
\* poller.reported the fills for which a 'fill' notification was appended to
\* self.notifications.  The polled list is a set: its order decides only the
\* order of the returned events.
MAX_CACHED_FILLS == 100
MaxFillTime == 102

\* sorted(self.last_fills.items(), key=time)[-100:]
KeepMostRecent(fills) ==
    {f \in fills : Cardinality({g \in fills : g > f}) < MAX_CACHED_FILLS}

\* detect_new_fills: the fills not in the cache are new and are added; the
\* cache is trimmed when it holds more than 100.
DetectNewFills(last_fills, current_fills) ==
    LET new_fills == current_fills \ last_fills
        added == last_fills \cup new_fills IN
    [new_fills |-> new_fills,
     last_fills |-> IF Cardinality(added) > MAX_CACHED_FILLS
                    THEN KeepMostRecent(added) ELSE added]

\* What info.user_fills() returns: the account's fills from some time on,
\* a short list or one of 98 to MaxFillTime entries.
PolledFills == {lo..hi : lo \in 1..3, hi \in {3} \cup (MAX_CACHED_FILLS..MaxFillTime)}

\* start_monitoring, lines 140-149: the fills of the first poll are put
\* into the cache, untrimmed and unreported.
PollerStarts(initial_fills) ==
    /\ Quiet
    /\ ~poller.running
    /\ poller' = [poller EXCEPT !.running = TRUE,
                                !.last_fills = @ \cup initial_fills]
    /\ UNCHANGED <<pc, exit_cause, shutdown_event, tracked_wallets, user_settings,
                   subscribed_wallets, connection_status, rate_limiter, ws,
                   retry_count, sender, notification_queue, token_cache, obs,
                   health_access, threads>>

\* One detect_new_fills call, from the loop of start_monitoring (lines
\* 168-179) or directly, and the notifications appended for its result.
PollerDetects(current_fills) ==
    /\ Quiet
    /\ LET res == DetectNewFills(poller.last_fills, current_fills) IN
       /\ poller' = [poller EXCEPT !.last_fills = res.last_fills,
                                   !.reported = @ \cup res.new_fills]
       /\ obs' = [kind |-> "detect_fills", current_fills |-> current_fills,
                  new_fills |-> res.new_fills,
                  cache_before |-> poller.last_fills,
                  reported_before |-> poller.reported]
    /\ UNCHANGED <<pc, exit_cause, shutdown_event, tracked_wallets, user_settings,
                   subscribed_wallets, connection_status, rate_limiter, ws,
                   retry_count, sender, notification_queue, token_cache,
                   health_access, threads>>

\* start_monitoring returns (duration elapsed or stop_monitoring()).
PollerStops ==
    /\ Quiet
    /\ poller.running
    /\ poller' = [poller EXCEPT !.running = FALSE]
    /\ UNCHANGED <<pc, exit_cause, shutdown_event, tracked_wallets, user_settings,
                   subscribed_wallets, connection_status, rate_limiter, ws,
                   retry_count, sender, notification_queue, token_cache, obs,
                   health_access, threads>>

NextPoller ==
    \/ Observed
    \/ \E initial_fills \in PolledFills : PollerStarts(initial_fills)
    \/ \E current_fills \in PolledFills : PollerDetects(current_fills)
    \/ PollerStops

\* One OrderPollingMonitor and the lists it polls.
SpecPoller == Init /\ [][NextPoller]_vars

\* C40: over any sequence of detect_new_fills calls a fill is reported as
\* new at most once, also when the polled list holds more than 100 fills and
\* the cache was trimmed; and after every call the cache holds at most 100
\* fills.
C40_FillReportedOnce ==
    obs.kind = "detect_fills" =>
        /\ obs.new_fills \cap obs.reported_before = {}
        /\ Cardinality(poller.last_fills) <= MAX_CACHED_FILLS
====
